---------------------------- MODULE Spec2Model ----------------------------
(***************************************************************************)
(* alsa-lib: the PCM ring-buffer pointer model, the per-handle lock and    *)
(* the error mapping of src/pcm/pcm_local.h, with the stream state machine *)
(* and the hw-parameter refinement engine they operate in.                 *)
(*                                                                         *)
(* Frame counters are C `unsigned long' (snd_pcm_uframes_t) and `long'     *)
(* (snd_pcm_sframes_t); the model keeps their width (pcm.long_bits) so     *)
(* that the unsigned wrap and the signed reinterpretation in the avail     *)
(* computations are what the C code does.                                  *)
(***************************************************************************)
EXTENDS Integers, Sequences, FiniteSets, TLC

VARIABLES
    pcm,          \* struct _snd_pcm: stream, buffer_size, boundary, ... (set by hw_params)
    state,        \* the stream state the state callback reports (snd_pcm_state_t)
    appl_ptr,     \* *pcm->appl.ptr
    hw_ptr,       \* *pcm->hw.ptr
    ret,          \* the last transfer call: kernel result, returned error, state seen
    appl_start,   \* appl_ptr when the pointers were last reset
    appl_total,   \* frames appl_ptr was advanced by since the last reset
    hw_total,     \* frames hw_ptr was advanced by since the last reset
    lock_enabled, \* pcm->lock_enabled
    need_lock,    \* pcm->need_lock
    lock,         \* pcm->lock: 0 when free, else the thread that holds the mutex
    tpc,          \* per thread: where it is with respect to the lock calls
    params,       \* snd_pcm_hw_params_t under refinement
    caps,         \* the capability oracle: the device's own parameter space
    rstat,        \* outcome of the last refinement / commit call
    priv,         \* snd_ctl_remap_t: the maps and sync groups of a remap plugin
    child         \* the values of the controls of the plugin's child

ringvars == <<pcm, state, appl_ptr, hw_ptr, ret, appl_start, appl_total, hw_total>>
lockvars == <<lock_enabled, need_lock, lock, tpc>>
refvars  == <<params, caps, rstat>>
ctlvars  == <<priv, child>>
vars     == <<pcm, state, appl_ptr, hw_ptr, ret, appl_start, appl_total, hw_total,
              lock_enabled, need_lock, lock, tpc, params, caps, rstat, priv, child>>

---------------------------------------------------------------------------
(* Bounds of the model *)

\* width in bits of `long' in the exhaustively explored builds
LongBits == 5
\* largest buffer_size (frames) of the exhaustively explored streams
MaxBufferSize == 3
\* boundary = buffer_size * k is explored for k up to MaxMult
MaxMult == 3
\* one hardware advance / one transfer moves at most MaxStep periods
MaxStep == 3
\* the pointers are followed for MaxCycles wraps of the boundary
MaxCycles == 2
\* number of application threads calling into one handle
NumThreads == 2

---------------------------------------------------------------------------
(* C integer arithmetic at the width of `long' *)

RECURSIVE Pow2(_)
Pow2(n) == IF n = 0 THEN 1 ELSE 2 * Pow2(n - 1)

ULONG_MODULUS(bits) == Pow2(bits)
LONG_MAX(bits) == Pow2(bits - 1) - 1

\* conversion to snd_pcm_uframes_t (unsigned long): reduction modulo 2^bits
to_uframes(x, bits) == x % ULONG_MODULUS(bits)

\* conversion to snd_pcm_sframes_t (long): two's complement reinterpretation
to_sframes(x, bits) ==
    LET u == to_uframes(x, bits)
    IN  IF u > LONG_MAX(bits) THEN u - ULONG_MODULUS(bits) ELSE u

Min(a, b) == IF a < b THEN a ELSE b

---------------------------------------------------------------------------
(* Stream states and directions *)

SND_PCM_STATE_OPEN         == "OPEN"
SND_PCM_STATE_SETUP        == "SETUP"
SND_PCM_STATE_PREPARED     == "PREPARED"
SND_PCM_STATE_RUNNING      == "RUNNING"
SND_PCM_STATE_XRUN         == "XRUN"
SND_PCM_STATE_DRAINING     == "DRAINING"
SND_PCM_STATE_PAUSED       == "PAUSED"
SND_PCM_STATE_SUSPENDED    == "SUSPENDED"
SND_PCM_STATE_DISCONNECTED == "DISCONNECTED"

SND_PCM_STREAM_PLAYBACK == "PLAYBACK"
SND_PCM_STREAM_CAPTURE  == "CAPTURE"

States == { SND_PCM_STATE_OPEN, SND_PCM_STATE_SETUP, SND_PCM_STATE_PREPARED,
            SND_PCM_STATE_RUNNING, SND_PCM_STATE_XRUN, SND_PCM_STATE_DRAINING,
            SND_PCM_STATE_PAUSED, SND_PCM_STATE_SUSPENDED,
            SND_PCM_STATE_DISCONNECTED }

\* error codes, by name (the sign is part of the name)
Errs == { "0", "-EINTR", "-EAGAIN", "-EPIPE", "-ESTRPIPE", "-ENODEV", "-EBADFD", "-EIO" }

---------------------------------------------------------------------------
(* pcm_local.h: state query and error mapping *)

\* __snd_pcm_state(): OPEN when the plugin has no state callback
__snd_pcm_state(p) ==
    IF ~p.fast_ops_state THEN SND_PCM_STATE_OPEN ELSE state

\* a check_error that maps a suspended stream like a disconnected one
check_error_swapped(p, err) ==
    IF err = "-EINTR"
    THEN CASE __snd_pcm_state(p) = SND_PCM_STATE_XRUN -> "-EPIPE"
           [] __snd_pcm_state(p) = SND_PCM_STATE_SUSPENDED -> "-ENODEV"
           [] __snd_pcm_state(p) = SND_PCM_STATE_DISCONNECTED -> "-ESTRPIPE"
           [] OTHER -> err
    ELSE err

\* a check_error without the XRUN case
check_error_no_xrun(p, err) ==
    IF err = "-EINTR"
    THEN CASE __snd_pcm_state(p) = SND_PCM_STATE_SUSPENDED -> "-ESTRPIPE"
           [] __snd_pcm_state(p) = SND_PCM_STATE_DISCONNECTED -> "-ENODEV"
           [] OTHER -> err
    ELSE err

\* snd_pcm_check_error(): "handle special error cases"
snd_pcm_check_error(p, err) ==
    IF err = "-EINTR"
    THEN CASE __snd_pcm_state(p) = SND_PCM_STATE_XRUN -> "-EPIPE"
           [] __snd_pcm_state(p) = SND_PCM_STATE_SUSPENDED -> "-ESTRPIPE"
           [] __snd_pcm_state(p) = SND_PCM_STATE_DISCONNECTED -> "-ENODEV"
           [] OTHER -> err
    ELSE err

---------------------------------------------------------------------------
(* pcm_local.h: available frames *)

\* a playback avail that forgets the wrap at the boundary
playback_avail_no_wrap(p, hw, appl) ==
    LET avail == to_sframes(hw + p.buffer_size - appl, p.long_bits)
    IN  to_uframes(IF avail < 0 THEN avail + p.boundary ELSE avail, p.long_bits)

\* a playback avail clamped to buffer_size
playback_avail_clamped(p, hw, appl) ==
    LET avail == to_sframes(hw + p.buffer_size - appl, p.long_bits)
        res   == IF avail < 0 THEN avail + p.boundary
                 ELSE IF avail >= p.boundary THEN avail - p.boundary
                 ELSE avail
    IN  Min(to_uframes(res, p.long_bits), p.buffer_size)

\* a playback avail computed like the capture one, without buffer_size
playback_avail_as_capture(p, hw, appl) ==
    LET avail == to_sframes(hw - appl, p.long_bits)
    IN  to_uframes(IF avail < 0 THEN avail + p.boundary ELSE avail, p.long_bits)

\* __snd_pcm_playback_avail(): frames in the empty part of the ring buffer
__snd_pcm_playback_avail(p, hw, appl) ==
    LET avail == to_sframes(to_uframes(hw + p.buffer_size, p.long_bits) - appl, p.long_bits)
        res   == IF avail < 0
                 THEN to_sframes(avail + p.boundary, p.long_bits)
                 ELSE IF to_uframes(avail, p.long_bits) >= p.boundary
                      THEN to_sframes(avail - p.boundary, p.long_bits)
                      ELSE avail
    IN  to_uframes(res, p.long_bits)

\* a capture avail that wraps at the buffer size instead of the boundary
capture_avail_wrap_buffer(p, hw, appl) ==
    LET avail == to_sframes(hw - appl, p.long_bits)
    IN  to_uframes(IF avail < 0 THEN avail + p.buffer_size ELSE avail, p.long_bits)

\* __snd_pcm_capture_avail(): frames in the filled part of the ring buffer
__snd_pcm_capture_avail(p, hw, appl) ==
    LET avail == to_sframes(hw - appl, p.long_bits)
        res   == IF avail < 0
                 THEN to_sframes(avail + p.boundary, p.long_bits)
                 ELSE avail
    IN  to_uframes(res, p.long_bits)

\* an avail that takes the directions for each other
avail_directions_swapped(p, hw, appl) ==
    IF p.stream = SND_PCM_STREAM_PLAYBACK
    THEN __snd_pcm_capture_avail(p, hw, appl)
    ELSE __snd_pcm_playback_avail(p, hw, appl)

\* __snd_pcm_avail(): by stream direction
__snd_pcm_avail(p, hw, appl) ==
    IF p.stream = SND_PCM_STREAM_PLAYBACK
    THEN __snd_pcm_playback_avail(p, hw, appl)
    ELSE __snd_pcm_capture_avail(p, hw, appl)

snd_pcm_mmap_playback_avail(p) == __snd_pcm_playback_avail(p, hw_ptr, appl_ptr)
snd_pcm_mmap_capture_avail(p)  == __snd_pcm_capture_avail(p, hw_ptr, appl_ptr)
snd_pcm_mmap_avail(p)          == __snd_pcm_avail(p, hw_ptr, appl_ptr)

\* snd_pcm_mmap_offset(): position of appl_ptr inside the buffer
snd_pcm_mmap_offset(p, appl) == appl % p.buffer_size


---------------------------------------------------------------------------
(* Ring buffer pointers: boundary and the forward operations *)

\* the wrap point the library installs for a buffer: buffer_size doubled
\* while the result still leaves room for one buffer below LONG_MAX
RECURSIVE snd_pcm_boundary(_, _, _)
snd_pcm_boundary(b, buffer_size, bits) ==
    IF b * 2 <= LONG_MAX(bits) - buffer_size
    THEN snd_pcm_boundary(b * 2, buffer_size, bits)
    ELSE b

\* the wrap points explored for a buffer: the installed one and the small
\* multiples of buffer_size that fit the same way
Boundaries(buffer_size, bits) ==
    { b \in { buffer_size * k : k \in 2..MaxMult }
            \cup { snd_pcm_boundary(buffer_size, buffer_size, bits) } :
        b >= 2 * buffer_size /\ b <= LONG_MAX(bits) - buffer_size }

\* a forward that wraps at the buffer size instead of the boundary
forward_wrap_buffer(p, ptr, frames) ==
    LET n == to_uframes(ptr + frames, p.long_bits)
    IN  IF n >= p.buffer_size THEN n % p.buffer_size ELSE n

\* a forward that lets the pointer reach the boundary itself
forward_wrap_late(p, ptr, frames) ==
    LET n == to_uframes(ptr + frames, p.long_bits)
    IN  IF n > p.boundary THEN n % p.boundary ELSE n

\* advance a ring-buffer pointer by frames, modulo the boundary
rbptr_forward(p, ptr, frames) ==
    LET n == to_uframes(ptr + frames, p.long_bits)
    IN  IF n >= p.boundary THEN n % p.boundary ELSE n

\* snd_pcm_mmap_appl_forward(): the new *pcm->appl.ptr
snd_pcm_mmap_appl_forward(p, frames) == rbptr_forward(p, appl_ptr, frames)

\* snd_pcm_mmap_hw_forward(): the new *pcm->hw.ptr
snd_pcm_mmap_hw_forward(p, frames) == rbptr_forward(p, hw_ptr, frames)

\* frame counts one call or one hardware update moves: whole periods
Frames(p) == { k * p.period_size : k \in 1..MaxStep }

---------------------------------------------------------------------------
(* Stream handle: configuration and state machine *)

NoRet == [op |-> "none", raw |-> "0", err |-> "0", st |-> SND_PCM_STATE_OPEN]

\* the handle after snd_pcm_open: no parameters installed
OpenPcm(stream, bits) ==
    [ setup |-> 0, stream |-> stream, buffer_size |-> 0, boundary |-> 0,
      period_size |-> 0, long_bits |-> bits, fast_ops_state |-> TRUE ]

\* the (buffer_size, boundary) pairs explored at a given width of long
RingSizes(bits) ==
    UNION { { <<bs, bd>> : bd \in Boundaries(bs, bits) } : bs \in 1..MaxBufferSize }

\* the parameters a hw_params call may install: period_size 1, so that the
\* pointers take every value below the boundary
Setups(p) ==
    { [ p EXCEPT !.setup = 1, !.buffer_size = c[1], !.boundary = c[2],
                 !.period_size = 1 ] : c \in RingSizes(p.long_bits) }

\* snd_pcm_hw_params(): install the parameters on an open handle
snd_pcm_hw_params(q) ==
    /\ state = SND_PCM_STATE_OPEN
    /\ pcm' = q
    /\ state' = SND_PCM_STATE_SETUP
    /\ appl_ptr' = 0 /\ hw_ptr' = 0
    /\ appl_start' = 0 /\ appl_total' = 0 /\ hw_total' = 0
    /\ UNCHANGED <<ret, lockvars, refvars, ctlvars>>

\* snd_pcm_prepare(): the only way out of XRUN; resets the ring buffer
snd_pcm_prepare ==
    /\ state \in { SND_PCM_STATE_SETUP, SND_PCM_STATE_PREPARED, SND_PCM_STATE_XRUN,
                   SND_PCM_STATE_DRAINING, SND_PCM_STATE_PAUSED,
                   SND_PCM_STATE_SUSPENDED }
    /\ state' = SND_PCM_STATE_PREPARED
    /\ appl_ptr' = 0 /\ hw_ptr' = 0
    /\ appl_start' = 0 /\ appl_total' = 0 /\ hw_total' = 0
    /\ UNCHANGED <<pcm, ret, lockvars, refvars, ctlvars>>

\* __snd_pcm_start()
snd_pcm_start ==
    /\ state = SND_PCM_STATE_PREPARED
    /\ state' = SND_PCM_STATE_RUNNING
    /\ UNCHANGED <<pcm, appl_ptr, hw_ptr, ret, appl_start, appl_total, hw_total,
                   lockvars, refvars, ctlvars>>

\* snd_pcm_pause(pcm, 1)
snd_pcm_pause ==
    /\ state = SND_PCM_STATE_RUNNING
    /\ state' = SND_PCM_STATE_PAUSED
    /\ UNCHANGED <<pcm, appl_ptr, hw_ptr, ret, appl_start, appl_total, hw_total,
                   lockvars, refvars, ctlvars>>

\* snd_pcm_drain(): the hardware keeps running until the buffer is played
snd_pcm_drain ==
    /\ state = SND_PCM_STATE_RUNNING
    /\ pcm.stream = SND_PCM_STREAM_PLAYBACK
    /\ state' = SND_PCM_STATE_DRAINING
    /\ UNCHANGED <<pcm, appl_ptr, hw_ptr, ret, appl_start, appl_total, hw_total,
                   lockvars, refvars, ctlvars>>

\* the driver suspends the device
DeviceSuspend ==
    /\ state = SND_PCM_STATE_RUNNING
    /\ state' = SND_PCM_STATE_SUSPENDED
    /\ UNCHANGED <<pcm, appl_ptr, hw_ptr, ret, appl_start, appl_total, hw_total,
                   lockvars, refvars, ctlvars>>

\* the driver disconnects the device
DeviceDisconnect ==
    /\ state = SND_PCM_STATE_RUNNING
    /\ state' = SND_PCM_STATE_DISCONNECTED
    /\ UNCHANGED <<pcm, appl_ptr, hw_ptr, ret, appl_start, appl_total, hw_total,
                   lockvars, refvars, ctlvars>>

\* the state after the hardware moved hw_ptr to hw: XRUN once it is more
\* than buffer_size ahead of the application
StateAfterHw(p, st, hw, appl) ==
    IF __snd_pcm_avail(p, hw, appl) > p.buffer_size THEN SND_PCM_STATE_XRUN ELSE st

\* the hardware reports progress: hw_ptr advances by frames
HardwareAdvance(frames) ==
    /\ state \in { SND_PCM_STATE_RUNNING, SND_PCM_STATE_DRAINING }
    /\ hw_total + frames <= MaxCycles * pcm.boundary
    /\ hw_ptr' = snd_pcm_mmap_hw_forward(pcm, frames)
    /\ hw_total' = hw_total + frames
    /\ state' = StateAfterHw(pcm, state, hw_ptr', appl_ptr)
    /\ UNCHANGED <<pcm, appl_ptr, ret, appl_start, appl_total, lockvars, refvars, ctlvars>>

\* what the driver answers to a transfer call in the given state, besides
\* being interrupted: success (frames moved) or the error of the state
KernelResult(p, st) ==
    CASE st \in { SND_PCM_STATE_PREPARED, SND_PCM_STATE_RUNNING, SND_PCM_STATE_PAUSED } ->
            IF snd_pcm_mmap_avail(p) > 0 THEN "0" ELSE "-EAGAIN"
      [] st = SND_PCM_STATE_XRUN -> "-EPIPE"
      [] st = SND_PCM_STATE_SUSPENDED -> "-ESTRPIPE"
      [] st = SND_PCM_STATE_DISCONNECTED -> "-ENODEV"
      [] OTHER -> "-EBADFD"

\* one transfer call (writei on playback, readi on capture) of `frames':
\* the driver's answer goes through snd_pcm_check_error; on success the
\* frames that fit are moved and appl_ptr is advanced by them
Transfer(op, frames, raw) ==
    LET n == Min(frames, snd_pcm_mmap_avail(pcm))
    IN  /\ pcm.setup = 1
        /\ raw \in { KernelResult(pcm, state), "-EINTR" }
        /\ ret' = [ op |-> op, raw |-> raw, err |-> snd_pcm_check_error(pcm, raw),
                    st |-> __snd_pcm_state(pcm) ]
        /\ IF raw = "0"
           THEN /\ appl_total + n <= MaxCycles * pcm.boundary
                /\ appl_ptr' = snd_pcm_mmap_appl_forward(pcm, n)
                /\ appl_total' = appl_total + n
           ELSE UNCHANGED <<appl_ptr, appl_total>>
        /\ UNCHANGED <<pcm, state, hw_ptr, appl_start, hw_total, lockvars, refvars, ctlvars>>

\* _snd_pcm_writei()
snd_pcm_writei(frames, raw) ==
    /\ pcm.stream = SND_PCM_STREAM_PLAYBACK
    /\ Transfer("writei", frames, raw)

\* _snd_pcm_readi()
snd_pcm_readi(frames, raw) ==
    /\ pcm.stream = SND_PCM_STREAM_CAPTURE
    /\ Transfer("readi", frames, raw)

---------------------------------------------------------------------------
(* Specification of the stream: parameters, state machine, pointers *)

LockIdle ==
    /\ lock_enabled = 0 /\ need_lock = 0 /\ lock = 0
    /\ tpc = [t \in 1..NumThreads |-> [at |-> "idle", n |-> 0]]

RefineIdle ==
    /\ params = <<>> /\ caps = <<>> /\ rstat = "none"

CtlIdle ==
    /\ priv = <<>> /\ child = <<>>

InitRing ==
    /\ pcm \in { OpenPcm(s, LongBits) :
                   s \in { SND_PCM_STREAM_PLAYBACK, SND_PCM_STREAM_CAPTURE } }
    /\ state = SND_PCM_STATE_OPEN
    /\ appl_ptr = 0 /\ hw_ptr = 0
    /\ ret = NoRet
    /\ appl_start = 0 /\ appl_total = 0 /\ hw_total = 0
    /\ LockIdle /\ RefineIdle /\ CtlIdle

RingRun ==
    \/ snd_pcm_prepare
    \/ snd_pcm_start
    \/ snd_pcm_pause
    \/ snd_pcm_drain
    \/ DeviceSuspend
    \/ DeviceDisconnect
    \/ \E f \in Frames(pcm) : HardwareAdvance(f)
    \/ \E f \in Frames(pcm), raw \in Errs : snd_pcm_writei(f, raw)
    \/ \E f \in Frames(pcm), raw \in Errs : snd_pcm_readi(f, raw)

NextRing ==
    \/ \E q \in Setups(pcm) : snd_pcm_hw_params(q)
    \/ RingRun

Spec == InitRing /\ [][NextRing]_vars

---------------------------------------------------------------------------
(* The scenario stream: buffer_size 8192, pointers at 0 *)

\* a prepared stream of 8192 frames in periods of 2048, on a build with an
\* 18-bit long; boundary is any explored multiple of 8192 from 16384 on
InitScenario ==
    /\ pcm \in { [ setup |-> 1, stream |-> s, buffer_size |-> 8192, boundary |-> bd,
                   period_size |-> 2048, long_bits |-> 18, fast_ops_state |-> TRUE ] :
                   s \in { SND_PCM_STREAM_PLAYBACK, SND_PCM_STREAM_CAPTURE },
                   bd \in Boundaries(8192, 18) }
    /\ state = SND_PCM_STATE_PREPARED
    /\ appl_ptr = 0 /\ hw_ptr = 0
    /\ ret = NoRet
    /\ appl_start = 0 /\ appl_total = 0 /\ hw_total = 0
    /\ LockIdle /\ RefineIdle /\ CtlIdle

SpecScenario == InitScenario /\ [][RingRun]_vars

---------------------------------------------------------------------------
(* The appl_ptr forward operation on its own, from any pointer value *)

\* installed parameters, hw_ptr anywhere, appl_ptr at any start value
InitForward ==
    /\ pcm \in UNION { Setups(OpenPcm(s, LongBits)) :
                         s \in { SND_PCM_STREAM_PLAYBACK, SND_PCM_STREAM_CAPTURE } }
    /\ state = SND_PCM_STATE_PREPARED
    /\ appl_start \in 0..(pcm.boundary - 1)
    /\ appl_ptr = appl_start
    /\ hw_ptr \in 0..(pcm.boundary - 1)
    /\ ret = NoRet
    /\ appl_total = 0 /\ hw_total = 0
    /\ LockIdle /\ RefineIdle /\ CtlIdle

\* one call of snd_pcm_mmap_appl_forward(pcm, frames), frames up to boundary
ApplForward(frames) ==
    /\ appl_total + frames <= MaxCycles * pcm.boundary
    /\ appl_ptr' = snd_pcm_mmap_appl_forward(pcm, frames)
    /\ appl_total' = appl_total + frames
    /\ UNCHANGED <<pcm, state, hw_ptr, ret, appl_start, hw_total, lockvars, refvars, ctlvars>>

NextForward == \E frames \in 1..pcm.boundary : ApplForward(frames)

SpecForward == InitForward /\ [][NextForward]_vars

---------------------------------------------------------------------------
(* The avail functions on their own, on any pair of pointer values *)

\* installed parameters, hw_ptr and appl_ptr anywhere below the boundary
InitAvail ==
    /\ pcm \in UNION { Setups(OpenPcm(s, LongBits)) :
                         s \in { SND_PCM_STREAM_PLAYBACK, SND_PCM_STREAM_CAPTURE } }
    /\ state = SND_PCM_STATE_PREPARED
    /\ appl_ptr \in 0..(pcm.boundary - 1)
    /\ hw_ptr \in 0..(pcm.boundary - 1)
    /\ appl_start = appl_ptr
    /\ ret = NoRet
    /\ appl_total = 0 /\ hw_total = 0
    /\ LockIdle /\ RefineIdle /\ CtlIdle

\* the value an avail call returned
AvailRet(op, avail) ==
    [ op |-> op, raw |-> "0", err |-> "0", st |-> state, avail |-> avail ]

\* one call of snd_pcm_mmap_playback_avail(pcm)
PlaybackAvailCall ==
    /\ ret' = AvailRet("playback_avail", snd_pcm_mmap_playback_avail(pcm))
    /\ UNCHANGED <<pcm, state, appl_ptr, hw_ptr, appl_start, appl_total, hw_total,
                   lockvars, refvars, ctlvars>>

\* one call of snd_pcm_mmap_capture_avail(pcm)
CaptureAvailCall ==
    /\ ret' = AvailRet("capture_avail", snd_pcm_mmap_capture_avail(pcm))
    /\ UNCHANGED <<pcm, state, appl_ptr, hw_ptr, appl_start, appl_total, hw_total,
                   lockvars, refvars, ctlvars>>

NextAvail ==
    \/ PlaybackAvailCall
    \/ CaptureAvailCall

SpecAvail == InitAvail /\ [][NextAvail]_vars

---------------------------------------------------------------------------
(* pcm_local.h: the per-handle lock (THREAD_SAFE_API) *)

Threads == 1..NumThreads

\* calls one thread makes into the handle
MaxCalls == 2

\* pthread_mutex_lock(&pcm->lock) returns: the caller owns the mutex
pthread_mutex_lock(t) == lock = 0 /\ lock' = t

\* pthread_mutex_unlock(&pcm->lock)
pthread_mutex_unlock(t) == lock' = 0

\* a lock condition that reads `or' for `and'
lock_cond_or == lock_enabled # 0 \/ need_lock # 0

\* snd_pcm_lock / snd_pcm_unlock act on the mutex only under this condition
snd_pcm_lock_cond == lock_enabled # 0 /\ need_lock # 0

\* __snd_pcm_lock / __snd_pcm_unlock act on the mutex only under this one
forced_lock_cond == lock_enabled # 0

At(t, where) == tpc[t].at = where
Goto(t, where) == tpc' = [tpc EXCEPT ![t].at = where]

\* a thread enters snd_pcm_lock(): it goes on at once when no lock is to be
\* taken, and waits in pthread_mutex_lock otherwise
snd_pcm_lock_call(t) ==
    /\ At(t, "idle") /\ tpc[t].n < MaxCalls
    /\ Goto(t, IF snd_pcm_lock_cond THEN "wait" ELSE "in")
    /\ UNCHANGED <<lock_enabled, need_lock, lock, ringvars, refvars, ctlvars>>

\* snd_pcm_lock() returns with the mutex
snd_pcm_lock(t) ==
    /\ At(t, "wait")
    /\ pthread_mutex_lock(t)
    /\ Goto(t, "in")
    /\ UNCHANGED <<lock_enabled, need_lock, ringvars, refvars, ctlvars>>

\* snd_pcm_unlock()
snd_pcm_unlock(t) ==
    /\ At(t, "in")
    /\ IF snd_pcm_lock_cond THEN pthread_mutex_unlock(t) ELSE UNCHANGED lock
    /\ tpc' = [tpc EXCEPT ![t] = [at |-> "idle", n |-> @.n + 1]]
    /\ UNCHANGED <<lock_enabled, need_lock, ringvars, refvars, ctlvars>>

\* a thread enters __snd_pcm_lock()
forced_lock_call(t) ==
    /\ At(t, "idle") /\ tpc[t].n < MaxCalls
    /\ Goto(t, IF forced_lock_cond THEN "wait_forced" ELSE "in_forced")
    /\ UNCHANGED <<lock_enabled, need_lock, lock, ringvars, refvars, ctlvars>>

\* __snd_pcm_lock() returns with the mutex
__snd_pcm_lock(t) ==
    /\ At(t, "wait_forced")
    /\ pthread_mutex_lock(t)
    /\ Goto(t, "in_forced")
    /\ UNCHANGED <<lock_enabled, need_lock, ringvars, refvars, ctlvars>>

\* __snd_pcm_unlock()
__snd_pcm_unlock(t) ==
    /\ At(t, "in_forced")
    /\ IF forced_lock_cond THEN pthread_mutex_unlock(t) ELSE UNCHANGED lock
    /\ tpc' = [tpc EXCEPT ![t] = [at |-> "idle", n |-> @.n + 1]]
    /\ UNCHANGED <<lock_enabled, need_lock, ringvars, refvars, ctlvars>>

RingIdle ==
    /\ pcm = OpenPcm(SND_PCM_STREAM_PLAYBACK, LongBits)
    /\ state = SND_PCM_STATE_OPEN
    /\ appl_ptr = 0 /\ hw_ptr = 0
    /\ ret = NoRet
    /\ appl_start = 0 /\ appl_total = 0 /\ hw_total = 0

\* a handle of either kind, with locking switched on or off by the
\* environment, and no thread inside
InitLock ==
    /\ lock_enabled \in {0, 1}
    /\ need_lock \in {0, 1}
    /\ lock = 0
    /\ tpc = [t \in Threads |-> [at |-> "idle", n |-> 0]]
    /\ RingIdle /\ RefineIdle /\ CtlIdle

NextLock ==
    \E t \in Threads :
        \/ snd_pcm_lock_call(t)
        \/ snd_pcm_lock(t)
        \/ snd_pcm_unlock(t)
        \/ forced_lock_call(t)
        \/ __snd_pcm_lock(t)
        \/ __snd_pcm_unlock(t)

SpecLock == InitLock /\ [][NextLock]_vars

---------------------------------------------------------------------------
(* Interval and Mask primitives *)

\* width in bits of `unsigned int', the value type of an Interval
UIntBits == 16
UINT_MAX == Pow2(UIntBits) - 1

\* the "any" Interval: the full range
snd_interval_any ==
    [ min |-> 0, max |-> UINT_MAX, openmin |-> FALSE, openmax |-> FALSE,
      integer |-> FALSE, empty |-> FALSE ]

\* a closed Interval min..max of integers
Range(lo, hi) ==
    [ min |-> lo, max |-> hi, openmin |-> FALSE, openmax |-> FALSE,
      integer |-> TRUE, empty |-> FALSE ]

\* min > max after combining the open/closed semantics
snd_interval_checkempty(i) ==
    i.min > i.max \/ (i.min = i.max /\ (i.openmin \/ i.openmax))

snd_interval_empty(i) == i.empty

\* single-value test: min == max && !openmin && !openmax
snd_interval_single(i) ==
    ~i.empty /\ i.min = i.max /\ ~i.openmin /\ ~i.openmax

\* the values of an Interval among 0..top (for an integer Interval, the
\* integers it holds; otherwise the integers and the gaps between them,
\* named by twice the value)
IntervalPoints(i, top) ==
    IF i.empty THEN {}
    ELSE { x \in 0..(2 * top) :
             /\ (i.integer => x % 2 = 0)
             /\ (IF i.openmin THEN x > 2 * i.min ELSE x >= 2 * i.min)
             /\ (IF i.openmax THEN x < 2 * i.max ELSE x <= 2 * i.max) }

\* the end of every narrowing: an integer Interval tightens its open bounds
\* to min+1 / max-1, a closed single point is an integer, and an Interval
\* with nothing left is marked empty
IntervalSettle(i) ==
    LET t == IF i.integer
             THEN [ i EXCEPT !.min = IF i.openmin THEN @ + 1 ELSE @,
                             !.max = IF i.openmax THEN @ - 1 ELSE @,
                             !.openmin = FALSE, !.openmax = FALSE ]
             ELSE IF ~i.openmin /\ ~i.openmax /\ i.min = i.max
                  THEN [ i EXCEPT !.integer = TRUE ]
                  ELSE i
    IN  IF snd_interval_checkempty(t) THEN [ t EXCEPT !.empty = TRUE ] ELSE t

\* refine_min(iv, val, open): raise the lower bound
refine_min(i, val, open) ==
    IF i.empty THEN i
    ELSE IntervalSettle(
           IF i.min < val THEN [ i EXCEPT !.min = val, !.openmin = open ]
           ELSE IF i.min = val /\ ~i.openmin /\ open THEN [ i EXCEPT !.openmin = TRUE ]
           ELSE i)

\* a refine_max that moves the upper bound to val from either side
refine_max_moves(i, val, open) ==
    IF i.empty THEN i
    ELSE IntervalSettle([ i EXCEPT !.max = val, !.openmax = open ])

\* refine_max(iv, val, open): lower the upper bound
refine_max(i, val, open) ==
    IF i.empty THEN i
    ELSE IntervalSettle(
           IF i.max > val THEN [ i EXCEPT !.max = val, !.openmax = open ]
           ELSE IF i.max = val /\ ~i.openmax /\ open THEN [ i EXCEPT !.openmax = TRUE ]
           ELSE i)

\* set_integer(iv): only integers remain
set_integer(i) ==
    IF i.empty THEN i ELSE IntervalSettle([ i EXCEPT !.integer = TRUE ])

\* an intersection that leaves a closed bound closed when the other
\* operand's equal bound is open
intersect_keeps_closed(a, b) ==
    IF a.empty THEN a
    ELSE LET lo == IF a.min < b.min THEN [ a EXCEPT !.min = b.min, !.openmin = b.openmin ]
                   ELSE a
             hi == IF lo.max > b.max THEN [ lo EXCEPT !.max = b.max, !.openmax = b.openmax ]
                   ELSE lo
         IN  IntervalSettle([ hi EXCEPT !.integer = hi.integer \/ b.integer ])

\* intersect(a, b): narrow a to its overlap with b
intersect(a, b) ==
    IF a.empty THEN a
    ELSE LET lo == IF a.min < b.min THEN [ a EXCEPT !.min = b.min, !.openmin = b.openmin ]
                   ELSE IF a.min = b.min /\ ~a.openmin /\ b.openmin
                        THEN [ a EXCEPT !.openmin = TRUE ]
                        ELSE a
             hi == IF lo.max > b.max THEN [ lo EXCEPT !.max = b.max, !.openmax = b.openmax ]
                   ELSE IF lo.max = b.max /\ ~lo.openmax /\ b.openmax
                        THEN [ lo EXCEPT !.openmax = TRUE ]
                        ELSE lo
         IN  IntervalSettle([ hi EXCEPT !.integer = hi.integer \/ b.integer ])

\* unsigned multiplication that saturates at UINT_MAX
mul(a, b) ==
    IF a = 0 THEN 0
    ELSE IF UINT_MAX \div a < b THEN UINT_MAX
    ELSE a * b

\* the product Interval of two Intervals
snd_interval_mul(a, b) ==
    IF a.empty \/ b.empty
    THEN [ snd_interval_any EXCEPT !.empty = TRUE ]
    ELSE [ min |-> mul(a.min, b.min), openmin |-> a.openmin \/ b.openmin,
           max |-> mul(a.max, b.max), openmax |-> a.openmax \/ b.openmax,
           integer |-> a.integer /\ b.integer, empty |-> FALSE ]

\* the quotient Interval a / b: the lower bound rounds down and the upper
\* bound up, a bound that was rounded is open
snd_interval_div(a, b) ==
    IF a.empty \/ b.empty
    THEN [ snd_interval_any EXCEPT !.empty = TRUE ]
    ELSE LET lo  == IF b.max = 0 THEN UINT_MAX ELSE a.min \div b.max
             lor == IF b.max = 0 THEN 0 ELSE a.min % b.max
             hi  == IF b.min = 0 THEN UINT_MAX ELSE a.max \div b.min
             hir == IF b.min = 0 THEN 0 ELSE a.max % b.min
         IN  [ min |-> lo, openmin |-> (lor # 0) \/ a.openmin \/ b.openmax,
               max |-> IF b.min > 0 /\ hir # 0 THEN hi + 1 ELSE hi,
               openmax |-> IF b.min = 0 THEN FALSE
                           ELSE IF hir # 0 THEN TRUE ELSE a.openmax \/ b.openmin,
               integer |-> FALSE, empty |-> FALSE ]

\* the least and the greatest value of an Interval, counted in halves so
\* that an open bound of a non-integer Interval lies between two integers
IntervalLo(i) ==
    IF i.integer THEN 2 * (i.min + IF i.openmin THEN 1 ELSE 0)
    ELSE 2 * i.min + IF i.openmin THEN 1 ELSE 0

IntervalHi(i) ==
    IF i.integer THEN 2 * (i.max - IF i.openmax THEN 1 ELSE 0)
    ELSE 2 * i.max - IF i.openmax THEN 1 ELSE 0

\* the value set of Interval i is a subset of the value set of Interval j
IntervalWithin(i, j) ==
    \/ i.empty
    \/ IntervalLo(i) > IntervalHi(i)
    \/ /\ ~j.empty
       /\ IntervalLo(i) >= IntervalLo(j)
       /\ IntervalHi(i) <= IntervalHi(j)
       /\ j.integer =>
             i.integer \/ (IntervalLo(i) = IntervalHi(i) /\ IntervalLo(i) % 2 = 0)

\* the largest bound of the Intervals intersect is called on
MaxPoint == 2

\* every Interval record over the bounds 0..MaxPoint, whatever its flags
Intervals ==
    [ min : 0..MaxPoint, max : 0..MaxPoint, openmin : BOOLEAN, openmax : BOOLEAN,
      integer : BOOLEAN, empty : BOOLEAN ]

\* an Interval in settled form: it is not empty and holds a value, its
\* bounds are closed when it is integer, and a single closed point is integer
Settled(i) ==
    /\ ~i.empty /\ ~snd_interval_checkempty(i)
    /\ i.integer => ~i.openmin /\ ~i.openmax
    /\ i.min = i.max => i.integer

\* the values of an Interval over the explored bounds
Values(i) == IntervalPoints(i, MaxPoint + 1)

---------------------------------------------------------------------------
(* Parameter Space and the refinement engine *)

\* the largest value an application asks for in the explored requests
MaxVal == 4
\* narrowing calls of one configuration attempt
MaxSets == 2

MaskFields == { "format" }
IntervalFields == { "channels", "rate", "period_size", "periods", "buffer_size" }

\* the fields in the order the engine visits them
FieldOrder == << "format", "channels", "rate", "period_size", "periods", "buffer_size" >>

\* the sample formats of the explored devices (bits of the format Mask)
Formats == { 0, 1 }

\* _snd_pcm_hw_params_any(): every field holds its full range
snd_pcm_hw_params_any ==
    [ format |-> Formats, channels |-> snd_interval_any, rate |-> snd_interval_any,
      period_size |-> snd_interval_any, periods |-> snd_interval_any,
      buffer_size |-> snd_interval_any ]

\* snd_pcm_hw_param_empty(): a Mask without bits, an Interval marked empty
snd_pcm_hw_param_empty(ps, f) ==
    IF f \in MaskFields THEN ps[f] = {} ELSE snd_interval_empty(ps[f])

\* a refine that takes the source's field when the overlap is empty
hw_param_refine_substitute(ps, f, src) ==
    IF f \in MaskFields
    THEN [ ps EXCEPT ![f] = IF @ \cap src[f] = {} THEN src[f] ELSE @ \cap src[f] ]
    ELSE [ ps EXCEPT ![f] = IF intersect(@, src[f]).empty THEN src[f]
                            ELSE intersect(@, src[f]) ]

\* _snd_pcm_hw_param_refine(): narrow one field by the same field of src
hw_param_refine(ps, f, src) ==
    IF f \in MaskFields
    THEN [ ps EXCEPT ![f] = @ \cap src[f] ]
    ELSE [ ps EXCEPT ![f] = intersect(@, src[f]) ]

\* the steps of one full pass: every field against the capability source,
\* then the cross-field rules buffer_size = period_size * periods,
\* period_size = buffer_size / periods, periods = buffer_size / period_size
NumSteps == Len(FieldOrder) + 3

StepTarget(k) ==
    IF k <= Len(FieldOrder) THEN FieldOrder[k]
    ELSE IF k = Len(FieldOrder) + 1 THEN "buffer_size"
    ELSE IF k = Len(FieldOrder) + 2 THEN "period_size"
    ELSE "periods"

Step(k, ps, c) ==
    IF k <= Len(FieldOrder) THEN hw_param_refine(ps, FieldOrder[k], c)
    ELSE IF k = Len(FieldOrder) + 1
         THEN [ ps EXCEPT !.buffer_size =
                    intersect(@, snd_interval_mul(ps.period_size, ps.periods)) ]
    ELSE IF k = Len(FieldOrder) + 2
         THEN [ ps EXCEPT !.period_size =
                    intersect(@, snd_interval_div(ps.buffer_size, ps.periods)) ]
    ELSE [ ps EXCEPT !.periods =
               intersect(@, snd_interval_div(ps.buffer_size, ps.period_size)) ]

\* one full pass from step k on; it stops at the first field that goes empty
RECURSIVE RefinePass(_, _, _)
RefinePass(k, ps, c) ==
    IF k > NumSteps THEN [ params |-> ps, empty |-> "none" ]
    ELSE LET q == Step(k, ps, c)
         IN  IF snd_pcm_hw_param_empty(q, StepTarget(k))
             THEN [ params |-> q, empty |-> StepTarget(k) ]
             ELSE RefinePass(k + 1, q, c)

\* a refinement that stops after its first pass
refine_one_pass(ps, c) == RefinePass(1, ps, c)

\* snd_pcm_hw_refine(): full passes until one narrows nothing (the fixed
\* point) or a field goes empty
RECURSIVE snd_pcm_hw_refine(_, _)
snd_pcm_hw_refine(ps, c) ==
    LET r == RefinePass(1, ps, c)
    IN  IF r.empty # "none" \/ r.params = ps THEN r
        ELSE snd_pcm_hw_refine(r.params, c)

\* the outcome of a call that narrowed field f to ps and then refined
Refined(ps, f, c) ==
    IF snd_pcm_hw_param_empty(ps, f)
    THEN [ params |-> ps, empty |-> f ]
    ELSE snd_pcm_hw_refine(ps, c)

\* the capability oracles explored: the parameter space of a device
Oracles ==
    { [ format |-> fm, channels |-> Range(1, 2), rate |-> rt,
        period_size |-> pz, periods |-> pn, buffer_size |-> bz ] :
        fm \in { {0}, {0, 1} },
        rt \in { Range(1, 3), Range(2, 2) },
        pz \in { Range(1, 4), Range(2, 3) },
        pn \in { Range(2, 4), Range(1, 2) },
        bz \in { Range(2, 8), Range(4, 6),
                 [ Range(3, 8) EXCEPT !.openmin = TRUE, !.integer = FALSE ] } }

NoStat == [ op |-> "none", err |-> "0", empty |-> "none", sets |-> 0 ]

\* the call ends: params and its outcome are stored
Outcome(op, r) ==
    /\ params' = r.params
    /\ rstat' = [ op |-> op, err |-> IF r.empty = "none" THEN "0" ELSE "-EINVAL",
                  empty |-> r.empty, sets |-> rstat.sets + 1 ]
    /\ UNCHANGED <<caps, ringvars, lockvars, ctlvars>>

CanSet == rstat.err = "0" /\ rstat.sets < MaxSets

\* snd_pcm_hw_param_set_min(): raise a lower bound, then refine
snd_pcm_hw_param_set_min(f, val, open) ==
    /\ CanSet
    /\ Outcome("set_min", Refined([ params EXCEPT ![f] = refine_min(@, val, open) ], f, caps))

\* snd_pcm_hw_param_set_max(): lower an upper bound, then refine
snd_pcm_hw_param_set_max(f, val, open) ==
    /\ CanSet
    /\ Outcome("set_max", Refined([ params EXCEPT ![f] = refine_max(@, val, open) ], f, caps))

\* snd_pcm_hw_param_set_integer(): keep the integers, then refine
snd_pcm_hw_param_set_integer(f) ==
    /\ CanSet
    /\ Outcome("set_integer", Refined([ params EXCEPT ![f] = set_integer(@) ], f, caps))

\* snd_pcm_hw_param_set_mask(): keep the bits of mask, then refine
snd_pcm_hw_param_set_mask(f, mask) ==
    /\ CanSet
    /\ Outcome("set_mask", Refined([ params EXCEPT ![f] = @ \cap mask ], f, caps))

\* snd_pcm_hw_refine() called on the space as it is
hw_refine_call ==
    /\ CanSet
    /\ Outcome("refine", snd_pcm_hw_refine(params, caps))

\* the attempt is given up: the space is reset to "any"
hw_params_any_call ==
    /\ rstat.op # "none"
    /\ params' = snd_pcm_hw_params_any
    /\ rstat' = NoStat
    /\ UNCHANGED <<caps, ringvars, lockvars, ctlvars>>

InitRefine ==
    /\ params = snd_pcm_hw_params_any
    /\ caps \in Oracles
    /\ rstat = NoStat
    /\ RingIdle /\ LockIdle /\ CtlIdle

NextRefine ==
    \/ \E f \in IntervalFields, v \in 1..MaxVal, open \in BOOLEAN :
          snd_pcm_hw_param_set_min(f, v, open)
    \/ \E f \in IntervalFields, v \in 1..MaxVal, open \in BOOLEAN :
          snd_pcm_hw_param_set_max(f, v, open)
    \/ \E f \in IntervalFields : snd_pcm_hw_param_set_integer(f)
    \/ \E mask \in SUBSET Formats : snd_pcm_hw_param_set_mask("format", mask)
    \/ hw_refine_call
    \/ hw_params_any_call

SpecRefine == InitRefine /\ [][NextRefine]_vars

---------------------------------------------------------------------------
(* intersect on its own, on any pair of Intervals *)

\* params holds the two operands
InitIntersect ==
    /\ params \in [ a : Intervals, b : Intervals ]
    /\ caps = << >>
    /\ rstat = NoStat
    /\ RingIdle /\ LockIdle /\ CtlIdle

\* intersect is called on the operands in both orders and on a with itself
IntersectCall ==
    /\ rstat' = [ op |-> "intersect", err |-> "0", empty |-> "none", sets |-> 0,
                  ab |-> intersect(params.a, params.b),
                  ba |-> intersect(params.b, params.a),
                  aa |-> intersect(params.a, params.a) ]
    /\ UNCHANGED <<params, caps, ringvars, lockvars, ctlvars>>

NextIntersect == IntersectCall

SpecIntersect == InitIntersect /\ [][NextIntersect]_vars

---------------------------------------------------------------------------
(* The rate scenario: a 44100 Hz request against a 48000 Hz device *)

\* what the application asks for: rate 44100, format S16_LE (bit 1 of the
\* format Mask), 2 channels, periods of 1024 frames, 4 periods
ScenarioRequest ==
    [ rate |-> 44100, format |-> { 1 }, channels |-> 2, period_size |-> 1024,
      periods |-> 4 ]

\* devices that only permit rate 48000 and permit the rest of the request
RateOracles ==
    { [ format |-> fm, channels |-> ch, rate |-> Range(48000, 48000),
        period_size |-> pz, periods |-> Range(2, 32), buffer_size |-> bz ] :
        fm \in { { 1 }, { 0, 1 } },
        ch \in { Range(1, 2), Range(2, 2), Range(2, 8) },
        pz \in { Range(64, 8192), Range(1024, 1024) },
        bz \in { Range(128, 65535), Range(4096, 16384) } }

\* snd_pcm_hw_param_set(): narrow an Interval field to one value, then refine
snd_pcm_hw_param_set(f, val) ==
    /\ rstat.err = "0"
    /\ rstat.sets < Cardinality(DOMAIN ScenarioRequest)
    /\ Outcome(f, Refined([ params EXCEPT ![f] = intersect(@, Range(val, val)) ], f, caps))

\* snd_pcm_hw_params_set_format(): narrow the format Mask to one format
snd_pcm_hw_params_set_format(mask) ==
    /\ rstat.err = "0"
    /\ rstat.sets < Cardinality(DOMAIN ScenarioRequest)
    /\ Outcome("format", Refined([ params EXCEPT !.format = @ \cap mask ], "format", caps))

InitRate ==
    /\ params = snd_pcm_hw_params_any
    /\ caps \in RateOracles
    /\ rstat = NoStat
    /\ RingIdle /\ LockIdle /\ CtlIdle

\* the requests of the scenario, in any order
NextRate ==
    \/ \E f \in IntervalFields \cap DOMAIN ScenarioRequest :
          snd_pcm_hw_param_set(f, ScenarioRequest[f])
    \/ snd_pcm_hw_params_set_format(ScenarioRequest.format)
    \/ hw_refine_call
    \/ hw_params_any_call

SpecRate == InitRate /\ [][NextRate]_vars

---------------------------------------------------------------------------
(* Commit of a fully refined Parameter Space and read-back *)

\* snd_mask_value(): the lowest bit of a Mask
snd_mask_value(m) == CHOOSE x \in m : \A y \in m : x <= y

\* snd_interval_value(): the value of a single-point Interval
snd_interval_value(i) == i.min

\* snd_interval_set_value(): the Interval that holds val alone
snd_interval_set_value(val) == Range(val, val)

\* the fully refined spaces explored: every field a single point, with
\* buffer_size = period_size * periods; a point may or may not carry the
\* integer flag
Point(val, int) == [ Range(val, val) EXCEPT !.integer = int ]

FullyRefined ==
    { [ format |-> { fm }, channels |-> Point(ch, TRUE), rate |-> Point(rt, ri),
        period_size |-> Point(pz, TRUE), periods |-> Point(pn, pi),
        buffer_size |-> Point(pz * pn, TRUE) ] :
        fm \in Formats, ch \in 1..2, rt \in 1..MaxVal, ri \in BOOLEAN,
        pz \in 1..MaxBufferSize, pn \in 1..2, pi \in BOOLEAN }

\* the commit: the handle stores the value of every field, periods as the
\* Interval it is, and the boundary chosen for the buffer size
hw_params_commit(p, ps) ==
    [ setup |-> 1, stream |-> p.stream, long_bits |-> p.long_bits,
      fast_ops_state |-> p.fast_ops_state,
      format |-> snd_mask_value(ps.format),
      channels |-> snd_interval_value(ps.channels),
      rate |-> snd_interval_value(ps.rate),
      period_size |-> snd_interval_value(ps.period_size),
      periods |-> ps.periods,
      buffer_size |-> snd_interval_value(ps.buffer_size),
      boundary |-> snd_pcm_boundary(snd_interval_value(ps.buffer_size),
                                    snd_interval_value(ps.buffer_size), p.long_bits) ]

\* a read-back that takes the buffer size for the period size
hw_params_current_period(p) ==
    [ format |-> { p.format },
      channels |-> snd_interval_set_value(p.channels),
      rate |-> snd_interval_set_value(p.rate),
      period_size |-> snd_interval_set_value(p.buffer_size),
      periods |-> p.periods,
      buffer_size |-> snd_interval_set_value(p.buffer_size) ]

\* snd_pcm_hw_params_current(): the Parameter Space of the installed values
snd_pcm_hw_params_current(p) ==
    [ format |-> { p.format },
      channels |-> snd_interval_set_value(p.channels),
      rate |-> snd_interval_set_value(p.rate),
      period_size |-> snd_interval_set_value(p.period_size),
      periods |-> p.periods,
      buffer_size |-> snd_interval_set_value(p.buffer_size) ]

InitCommit ==
    /\ pcm \in { OpenPcm(s, LongBits) :
                   s \in { SND_PCM_STREAM_PLAYBACK, SND_PCM_STREAM_CAPTURE } }
    /\ state = SND_PCM_STATE_OPEN
    /\ appl_ptr = 0 /\ hw_ptr = 0
    /\ ret = NoRet
    /\ appl_start = 0 /\ appl_total = 0 /\ hw_total = 0
    /\ params \in FullyRefined
    /\ caps = << >>
    /\ rstat = NoStat
    /\ LockIdle /\ CtlIdle

\* snd_pcm_hw_params() on an open handle with a fully refined space
hw_params_commit_call ==
    /\ state = SND_PCM_STATE_OPEN
    /\ pcm' = hw_params_commit(pcm, params)
    /\ state' = SND_PCM_STATE_SETUP
    /\ rstat' = [ op |-> "hw_params", err |-> "0", empty |-> "none", sets |-> 0,
                  committed |-> params ]
    /\ UNCHANGED <<params, caps, appl_ptr, hw_ptr, ret, appl_start, appl_total,
                   hw_total, lockvars, ctlvars>>

\* the application's space is cleared before it is used again
hw_params_clear_call ==
    /\ rstat.op = "hw_params"
    /\ params' = snd_pcm_hw_params_any
    /\ rstat' = [ rstat EXCEPT !.op = "cleared" ]
    /\ UNCHANGED <<caps, ringvars, lockvars, ctlvars>>

\* snd_pcm_hw_params_current() on a handle with installed parameters
hw_params_current_call ==
    /\ pcm.setup = 1
    /\ rstat.op \in { "hw_params", "cleared" }
    /\ params' = snd_pcm_hw_params_current(pcm)
    /\ rstat' = [ rstat EXCEPT !.op = "current" ]
    /\ UNCHANGED <<caps, ringvars, lockvars, ctlvars>>

NextCommit ==
    \/ hw_params_commit_call
    \/ hw_params_clear_call
    \/ hw_params_current_call

SpecCommit == InitCommit /\ [][NextCommit]_vars

---------------------------------------------------------------------------
(* rawmidi/ump.c: packet length and SysEx expansion *)

\* a call outside the PCM handle changes the last result alone
OnlyRet ==
    UNCHANGED <<pcm, state, appl_ptr, hw_ptr, appl_start, appl_total, hw_total,
                lockvars, refvars, ctlvars>>

\* the largest packet type a caller passes
MaxType == 18
\* the largest buffer size a caller passes to the SysEx expansion
MaxLen == 14

SND_UMP_MSG_TYPE_DATA == 3
SND_UMP_MSG_TYPE_EXTENDED_DATA == 5
SND_UMP_SYSEX_STATUS_SINGLE == 0
SND_UMP_SYSEX_STATUS_END == 3

\* static int packet_length[16], elements 0..15 at positions 1..16
packet_length == << 1, 1, 1, 2, 2, 4, 1, 1, 2, 2, 2, 3, 3, 4, 4, 4 >>

\* what a read past the end of the table may yield: whatever int lies there
StrayInts == -1..5

\* snd_ump_packet_length(): the element read and the values the call may
\* return; `type > 16' lets type 16 through to packet_length[16]
snd_ump_packet_length(type) ==
    IF type > 16 THEN [ index |-> -1, val |-> { 0 } ]
    ELSE IF type + 1 \in DOMAIN packet_length
         THEN [ index |-> type, val |-> { packet_length[type + 1] } ]
         ELSE [ index |-> type, val |-> StrayInts ]

\* a UMP packet: four 32-bit words, each as its four bytes from the most
\* significant down; the data bytes count up from seed
UmpWord(b, seed) == << (seed + b) % 256, (seed + b + 1) % 256,
                       (seed + b + 2) % 256, (seed + b + 3) % 256 >>

UmpPacket(type, status, length, seed) ==
    << << type * 16, status * 16 + length, seed % 256, (seed + 1) % 256 >>,
       UmpWord(2, seed), UmpWord(6, seed), UmpWord(10, seed) >>

\* (*data >> offset) & 0xff
ByteAt(word, offset) == word[(24 - offset) \div 8 + 1]

snd_ump_msg_type(ump) == ump[1][1] \div 16
snd_ump_sysex_msg_status(ump) == ump[1][2] \div 16
snd_ump_sysex_msg_length(ump) == ump[1][2] % 16

\* expand_sysex_data(): the bytes stored at buf[0], buf[1], ... in order;
\* data is word w of ump; maxlen is tested and never counted down
RECURSIVE expand_sysex_data(_, _, _, _, _, _)
expand_sysex_data(ump, w, buf, maxlen, bytes, offset) ==
    IF bytes = 0 \/ maxlen = 0 THEN buf
    ELSE expand_sysex_data(ump, IF offset = 0 THEN w + 1 ELSE w,
                           Append(buf, ByteAt(ump[w], offset) % 128), maxlen,
                           bytes - 1, IF offset = 0 THEN 24 ELSE offset - 8)

\* the outcome of an expansion: return value, *filled and the bytes stored
SysexEnd(status) ==
    IF status = SND_UMP_SYSEX_STATUS_SINGLE \/ status = SND_UMP_SYSEX_STATUS_END
    THEN "1" ELSE "0"

expand_sysex7(ump, maxlen) ==
    LET status == snd_ump_sysex_msg_status(ump)
        bytes  == snd_ump_sysex_msg_length(ump)
    IN  IF maxlen = 0 THEN [ val |-> "0", filled |-> 0, stored |-> << >> ]
        ELSE IF bytes > 6 THEN [ val |-> "0", filled |-> 0, stored |-> << >> ]
        ELSE LET st == expand_sysex_data(ump, 1, << >>, maxlen, bytes, 8)
             IN  [ val |-> SysexEnd(status), filled |-> Len(st), stored |-> st ]

expand_sysex8(ump, maxlen) ==
    LET status == snd_ump_sysex_msg_status(ump)
        bytes  == snd_ump_sysex_msg_length(ump)
    IN  IF maxlen = 0 THEN [ val |-> "0", filled |-> 0, stored |-> << >> ]
        ELSE IF status > SND_UMP_SYSEX_STATUS_END
             THEN [ val |-> "0", filled |-> 0, stored |-> << >> ]
        ELSE IF bytes = 0 \/ bytes > 14
             THEN [ val |-> "0", filled |-> 0, stored |-> << >> ]
        ELSE LET st == expand_sysex_data(ump, 1, << >>, maxlen, bytes - 1, 0)
             IN  [ val |-> SysexEnd(status), filled |-> Len(st), stored |-> st ]

\* snd_ump_msg_sysex_expand(): *filled is left alone (-1 here) when the
\* message type is neither DATA nor EXTENDED_DATA
snd_ump_msg_sysex_expand(ump, maxlen) ==
    IF snd_ump_msg_type(ump) = SND_UMP_MSG_TYPE_DATA THEN expand_sysex7(ump, maxlen)
    ELSE IF snd_ump_msg_type(ump) = SND_UMP_MSG_TYPE_EXTENDED_DATA
         THEN expand_sysex8(ump, maxlen)
    ELSE [ val |-> "-EINVAL", filled |-> -1, stored |-> << >> ]

\* what a store past the end of buf does to the caller: nothing that shows,
\* or the memory behind buf is corrupted
Overrun(stored, maxlen) ==
    IF Len(stored) > maxlen THEN { "unnoticed", "corrupted" } ELSE { "none" }

\* the arguments of a call that was not made yet
PacketLengthArgs == { [ op |-> "args", fn |-> "packet_length", type |-> type ] :
                        type \in 0..MaxType }

SysexExpandArgs ==
    { [ op |-> "args", fn |-> "sysex_expand",
        ump |-> UmpPacket(type, status, length, seed), maxlen |-> maxlen ] :
        type \in { 2, SND_UMP_MSG_TYPE_DATA, SND_UMP_MSG_TYPE_EXTENDED_DATA },
        status \in 0..4, length \in 0..15, seed \in { 0, 120 }, maxlen \in 0..MaxLen }

packet_length_call(v) ==
    /\ ret.op = "args" /\ ret.fn = "packet_length"
    /\ v \in snd_ump_packet_length(ret.type).val
    /\ ret' = [ op |-> "packet_length", type |-> ret.type,
                index |-> snd_ump_packet_length(ret.type).index, val |-> v ]
    /\ OnlyRet

sysex_expand_call(o) ==
    /\ ret.op = "args" /\ ret.fn = "sysex_expand"
    /\ o \in Overrun(snd_ump_msg_sysex_expand(ret.ump, ret.maxlen).stored, ret.maxlen)
    /\ ret' = [ op |-> "sysex_expand", ump |-> ret.ump, maxlen |-> ret.maxlen,
                overrun |-> o,
                out |-> snd_ump_msg_sysex_expand(ret.ump, ret.maxlen) ]
    /\ OnlyRet

\* no PCM handle takes part
NoPcm ==
    /\ pcm = OpenPcm(SND_PCM_STREAM_PLAYBACK, LongBits)
    /\ state = SND_PCM_STATE_OPEN
    /\ appl_ptr = 0 /\ hw_ptr = 0
    /\ appl_start = 0 /\ appl_total = 0 /\ hw_total = 0
    /\ LockIdle /\ RefineIdle /\ CtlIdle

InitUmp ==
    /\ ret \in PacketLengthArgs \cup SysexExpandArgs
    /\ NoPcm

NextUmp ==
    \/ \E v \in StrayInts : packet_length_call(v)
    \/ \E o \in { "none", "unnoticed", "corrupted" } : sysex_expand_call(o)

SpecUmp == InitUmp /\ [][NextUmp]_vars

---------------------------------------------------------------------------
(* control/tlv.c: conversion between raw volume values and dB *)

\* the largest number of raw steps (rangemax - rangemin) of a control
MaxRange == 3
\* the largest dB step and dB span (in 0.01 dB) of a control
MaxDb == 4

SND_CTL_TLVT_CONTAINER == 0
SND_CTL_TLVT_DB_SCALE == 1
SND_CTL_TLVT_DB_LINEAR == 2
SND_CTL_TLVT_DB_RANGE == 3
SND_CTL_TLVT_DB_MINMAX == 4
SND_CTL_TLVT_DB_MINMAX_MUTE == 5
SND_CTL_TLV_DB_GAIN_MUTE == -9999999

\* division of C: the quotient is truncated toward zero
cdiv(a, b) ==
    IF (a >= 0) = (b > 0) THEN (IF a >= 0 THEN a ELSE -a) \div (IF b > 0 THEN b ELSE -b)
    ELSE -((IF a >= 0 THEN a ELSE -a) \div (IF b > 0 THEN b ELSE -b))

\* a dB TLV as its words: type, length in bytes, two payload words; a
\* DB_SCALE TLV holds min and step with the mute flag in bit 16
TlvScale(min, step, mute) == << SND_CTL_TLVT_DB_SCALE, 8, min, mute * 65536 + step >>
TlvMinMax(type, min, max) == << type, 8, min, max >>

\* snd_tlv_convert_to_dB() for DB_SCALE, DB_MINMAX and DB_MINMAX_MUTE
snd_tlv_convert_to_dB(tlv, rangemin, rangemax, volume) ==
    IF tlv[1] = SND_CTL_TLVT_DB_SCALE
    THEN LET min  == tlv[3]
             step == tlv[4] % 65536
             mute == (tlv[4] \div 65536) % 2
         IN  IF mute # 0 /\ volume <= rangemin THEN SND_CTL_TLV_DB_GAIN_MUTE
             ELSE (volume - rangemin) * step + min
    ELSE LET mindb == tlv[3]
             maxdb == tlv[4]
         IN  IF volume <= rangemin \/ rangemax <= rangemin
             THEN IF tlv[1] = SND_CTL_TLVT_DB_MINMAX_MUTE THEN SND_CTL_TLV_DB_GAIN_MUTE
                  ELSE mindb
             ELSE IF volume >= rangemax THEN maxdb
             ELSE cdiv((maxdb - mindb) * (volume - rangemin), rangemax - rangemin) + mindb

\* the rounding of both branches of snd_tlv_convert_from_dB()
from_dB_round(min, max, mute, rangemin, rangemax, db_gain, xdir) ==
    IF db_gain <= min
    THEN IF db_gain > SND_CTL_TLV_DB_GAIN_MUTE /\ xdir > 0 /\ mute
         THEN rangemin + 1 ELSE rangemin
    ELSE IF db_gain >= max THEN rangemax
    ELSE LET v == (db_gain - min) * (rangemax - rangemin)
             w == IF xdir > 0 THEN v + (max - min) - 1
                  ELSE IF xdir = 0 THEN v + cdiv((max - min) + 1, 2)
                  ELSE v
         IN  cdiv(w, max - min) + rangemin

\* snd_tlv_convert_from_dB() for DB_SCALE, DB_MINMAX and DB_MINMAX_MUTE
snd_tlv_convert_from_dB(tlv, rangemin, rangemax, db_gain, xdir) ==
    IF tlv[1] = SND_CTL_TLVT_DB_SCALE
    THEN LET min  == tlv[3]
             step == tlv[4] % 65536
             mute == (tlv[4] \div 65536) % 2
         IN  from_dB_round(min, min + step * (rangemax - rangemin), mute # 0,
                           rangemin, rangemax, db_gain, xdir)
    ELSE from_dB_round(tlv[3], tlv[4], tlv[1] = SND_CTL_TLVT_DB_MINMAX_MUTE,
                       rangemin, rangemax, db_gain, xdir)

\* the dB TLVs explored and the least and greatest dB of each over a range
DbTlvs ==
    { TlvScale(min, step, mute) : min \in { -2, 0 }, step \in 1..MaxDb, mute \in { 0, 1 } }
    \cup { TlvMinMax(type, min, min + span) :
             type \in { SND_CTL_TLVT_DB_MINMAX, SND_CTL_TLVT_DB_MINMAX_MUTE },
             min \in { -2, 0 }, span \in 1..(MaxDb + 1) }

TlvMinDb(tlv) == tlv[3]
TlvMaxDb(tlv, rangemin, rangemax) ==
    IF tlv[1] = SND_CTL_TLVT_DB_SCALE
    THEN tlv[3] + (tlv[4] % 65536) * (rangemax - rangemin)
    ELSE tlv[4]

\* the arguments of a conversion that was not made yet
FromDbArgs ==
    { [ op |-> "args", fn |-> "convert_from_dB", tlv |-> tlv, rangemin |-> rmin,
        rangemax |-> rmin + n, db_gain |-> db, xdir |-> xdir ] :
        tlv \in DbTlvs, rmin \in { 0, 1 }, n \in 1..MaxRange,
        db \in -3..(MaxDb * MaxRange + 1), xdir \in { -1, 0, 1 } }

convert_from_dB_call ==
    /\ ret.op = "args" /\ ret.fn = "convert_from_dB"
    /\ ret' = [ ret EXCEPT !.op = "convert_from_dB",
                  !.fn = snd_tlv_convert_from_dB(ret.tlv, ret.rangemin, ret.rangemax,
                                                 ret.db_gain, ret.xdir) ]
    /\ OnlyRet

InitTlv ==
    /\ ret \in FromDbArgs
    /\ NoPcm

NextTlv == convert_from_dB_call

SpecTlv == InitTlv /\ [][NextTlv]_vars

---------------------------------------------------------------------------
(* control/tlv.c: search of a TLV stream for dB information *)

\* the largest number of payload words of an ordinary TLV entry explored
MaxWords == 2

EINVAL == 22
ENOENT == 2
MAX_TLV_RANGE_SIZE == 256
MIN_TLV_STREAM_LEN == 8
\* a TLV type the switch has no case for (a channel map)
SND_CTL_TLVT_CHMAP_FIXED == 257

int_index(size) == (size + 4 - 1) \div 4

\* word i of the stream, the first word being word 1; the words behind the
\* drawn stream read as 0
TlvWord(tlv, i) == IF i <= Len(tlv) THEN tlv[i] ELSE 0

\* the TLV types that carry dB information (HAVE_SOFT_FLOAT not defined)
DbTypes ==
    { SND_CTL_TLVT_DB_SCALE, SND_CTL_TLVT_DB_MINMAX, SND_CTL_TLVT_DB_MINMAX_MUTE,
      SND_CTL_TLVT_DB_LINEAR, SND_CTL_TLVT_DB_RANGE }

DbMinSize(type) == IF type = SND_CTL_TLVT_DB_RANGE THEN 4 * 4 ELSE 2 * 4

RECURSIVE snd_tlv_parse_dB_info(_, _, _)
RECURSIVE parse_container(_, _, _, _)

\* snd_tlv_parse_dB_info() on the stream whose first word is word `at`:
\* the value returned, the word *db_tlvp points at (0 for NULL) and the
\* words read
snd_tlv_parse_dB_info(tlv, at, tlv_size) ==
    IF tlv_size < MIN_TLV_STREAM_LEN
    THEN [ val |-> -EINVAL, db |-> 0, reads |-> {} ]
    ELSE LET type  == TlvWord(tlv, at)
             size  == TlvWord(tlv, at + 1)
             reads == { at, at + 1 }
         IN  IF size > tlv_size - 2 * 4
             THEN [ val |-> -EINVAL, db |-> 0, reads |-> reads ]
             ELSE IF type = SND_CTL_TLVT_CONTAINER
             THEN parse_container(tlv, at + 2, int_index(size) * 4, reads)
             ELSE IF type \in DbTypes
             THEN IF size < DbMinSize(type) \/ size > MAX_TLV_RANGE_SIZE
                  THEN [ val |-> -EINVAL, db |-> 0, reads |-> reads ]
                  ELSE [ val |-> size + 4 * 2, db |-> at, reads |-> reads ]
             ELSE [ val |-> -ENOENT, db |-> 0, reads |-> reads ]

\* the while loop of the container case, with `size` bytes left at word `at`
parse_container(tlv, at, size, reads) ==
    IF size = 0
    THEN [ val |-> -ENOENT, db |-> 0, reads |-> reads ]
    ELSE LET r == snd_tlv_parse_dB_info(tlv, at, size)
         IN  IF r.val # -ENOENT
             THEN [ r EXCEPT !.reads = reads \cup r.reads ]
             ELSE LET len == int_index(TlvWord(tlv, at + 1)) + 2
                  IN  parse_container(tlv, at + len, (size - len * 4) % (UINT_MAX + 1),
                                      reads \cup r.reads \cup { at + 1 })

\* TLV entries as words: a leaf of n payload words and a container
Leaf(type, len, n) == << type, len >> \o [ i \in 1..n |-> 0 ]
Container(len, body) == << SND_CTL_TLVT_CONTAINER, len >> \o body

\* the declared lengths tried for an entry of n payload words: the exact
\* one, one that is not a multiple of the word size, and one too long
Lens(n) == { 4 * n, 4 * n + 4 } \cup (IF n > 0 THEN { 4 * n - 2 } ELSE {})

Leaves ==
    UNION { { Leaf(type, len, n) : len \in Lens(n),
                type \in { SND_CTL_TLVT_DB_SCALE, SND_CTL_TLVT_DB_RANGE,
                           SND_CTL_TLVT_CHMAP_FIXED } } : n \in 0..MaxWords }

BigLeaves ==
    { Leaf(SND_CTL_TLVT_DB_RANGE, 16, 4),
      Leaf(SND_CTL_TLVT_DB_SCALE, MAX_TLV_RANGE_SIZE, 64),
      Leaf(SND_CTL_TLVT_DB_SCALE, MAX_TLV_RANGE_SIZE + 4, 65) }

SmallLeaves == { l \in Leaves : Len(l) <= 3 }

Bodies ==
    { << >> } \cup Leaves \cup BigLeaves
    \cup { a \o b : a \in SmallLeaves, b \in Leaves \cup BigLeaves }
    \cup { Container(4 * Len(a), a) \o b : a \in SmallLeaves, b \in SmallLeaves \cup { << >> } }
    \cup { a \o Container(4 * Len(b), b) : a \in SmallLeaves, b \in SmallLeaves }

Streams ==
    Leaves \cup BigLeaves
    \cup UNION { { Container(len, b) : len \in Lens(Len(b)) } : b \in Bodies }

\* the arguments of a search that was not made yet: a stream and the byte
\* size the caller gives for it
ParseArgs ==
    UNION { { [ op |-> "args", fn |-> "parse_dB_info", tlv |-> t, tlv_size |-> n ] :
                n \in { k \in { 4 * Len(t), 4 * Len(t) - 2, 4 * Len(t) - 4, 4 } : k >= 0 } } :
            t \in Streams }

parse_dB_info_call ==
    /\ ret.op = "args" /\ ret.fn = "parse_dB_info"
    /\ LET r == snd_tlv_parse_dB_info(ret.tlv, 1, ret.tlv_size)
       IN  ret' = [ op |-> "parse_dB_info", fn |-> r.val, db_tlvp |-> r.db,
                    reads |-> r.reads, tlv |-> ret.tlv, tlv_size |-> ret.tlv_size ]
    /\ OnlyRet

InitParse ==
    /\ ret \in ParseArgs
    /\ NoPcm

NextParse == parse_dB_info_call

SpecParse == InitParse /\ [][NextParse]_vars

---------------------------------------------------------------------------
(* control_remap.c: read of a virtual map control *)

\* the largest value of a channel of a child control
MaxCtlVal == 2
\* the number of channels of the virtual map control explored
MaxDest == 4

\* the pcm, lock and refinement variables of a model without a stream
NoStream ==
    /\ pcm = OpenPcm(SND_PCM_STREAM_PLAYBACK, LongBits)
    /\ state = SND_PCM_STATE_OPEN
    /\ appl_ptr = 0 /\ hw_ptr = 0
    /\ appl_start = 0 /\ appl_total = 0 /\ hw_total = 0
    /\ LockIdle /\ RefineIdle

OnlyCtl ==
    UNCHANGED <<pcm, state, appl_ptr, hw_ptr, appl_start, appl_total, hw_total,
                lockvars, refvars>>

SNDRV_CTL_ELEM_TYPE_NONE == "NONE"
SNDRV_CTL_ELEM_TYPE_INTEGER == "INTEGER"
SNDRV_CTL_ELEM_TYPE_INTEGER64 == "INTEGER64"

\* struct snd_ctl_map_ctl: one child control of a map with its channel map,
\* src_channels entries for each channel of the map control, -1 where the
\* configuration names no source
MapCtl(id, src_channels, channel_map) ==
    [ id_child |-> id, src_channels |-> src_channels,
      channel_map_items |-> Len(channel_map) \div src_channels,
      channel_map |-> channel_map ]

\* snd_ctl_map_t after new_map() and parse_map1(): the type is not known
NewMap(controls) == [ type |-> SNDRV_CTL_ELEM_TYPE_NONE, controls |-> controls ]

\* the maps explored, as parse_map1() leaves them:
\*   A { vindex.0 0  vindex.1 1 }  B { vindex.2 0  vindex.3 1 }
\*   A { vindex.0 1 }
\*   A.vindex.0 [ 0 1 ]  B.vindex.1 [ 0 1 ]
\*   A { vindex.0 [ 0 1 ]  vindex.1 1 }
\*   A.vindex.0 0  B.vindex.0 0
Maps ==
    { NewMap(<< MapCtl("A", 1, << 0, 1 >>), MapCtl("B", 1, << -1, -1, 0, 1 >>) >>),
      NewMap(<< MapCtl("A", 1, << 1 >>) >>),
      NewMap(<< MapCtl("A", 2, << 0, 1 >>), MapCtl("B", 2, << -1, -1, 0, 1 >>) >>),
      NewMap(<< MapCtl("A", 2, << 0, 1, 1, -1 >>) >>),
      NewMap(<< MapCtl("A", 1, << 0 >>), MapCtl("B", 1, << 0 >>) >>) }

ChildIds == { "A", "B" }

\* ARRAY_SIZE(control->value.integer.value)
ValueSize == 128

\* the cast of a channel number to unsigned long is below the array size
InArray(src) == src >= 0 /\ src < ValueSize

\* control2.value.integer.value[src] after snd_ctl_elem_read() of child
\* control id: the cleared value holds 0 on the channels the child has not
Control2(id, src) ==
    IF src \in DOMAIN child.value[id] THEN child.value[id][src] ELSE 0

RECURSIVE MergeSources(_, _, _, _)

\* the inner loop over src_index: keep the least of the sources in the array
MergeSources(cur, mctl, base_idx, src_index) ==
    IF src_index >= mctl.src_channels THEN cur
    ELSE LET src == mctl.channel_map[base_idx + src_index + 1]
         IN  MergeSources(IF InArray(src) /\ Control2(mctl.id_child, src) < cur
                          THEN Control2(mctl.id_child, src) ELSE cur,
                          mctl, base_idx, src_index + 1)

\* the loop over index for one child control of the map
ReadMapCtl(value, mctl) ==
    [ index \in DOMAIN value |->
        IF index < mctl.channel_map_items
        THEN LET base_idx == mctl.src_channels * index
                 src      == mctl.channel_map[base_idx + 1]
             IN  MergeSources(IF InArray(src) THEN Control2(mctl.id_child, src)
                              ELSE value[index],
                              mctl, base_idx, 1)
        ELSE value[index] ]

RECURSIVE ReadMapCtls(_, _, _)

ReadMapCtls(value, map, item) ==
    IF item > Len(map.controls) THEN value
    ELSE ReadMapCtls(IF map.type \in { SNDRV_CTL_ELEM_TYPE_INTEGER,
                                       SNDRV_CTL_ELEM_TYPE_INTEGER64 }
                     THEN ReadMapCtl(value, map.controls[item]) ELSE value,
                     map, item + 1)

\* remap_map_elem_read() of the map control: the cleared value filled from
\* each child control in turn
remap_map_elem_read(map) ==
    [ err |-> 0, value |-> ReadMapCtls([ index \in 0..(MaxDest - 1) |-> 0 ], map, 1) ]

\* remap_map_elem_info() of the map control: the child controls have one
\* type, which the map takes
remap_map_elem_info_call ==
    /\ priv' = [ priv EXCEPT !.map.type = child.type ]
    /\ ret' = [ op |-> "map_info", err |-> 0 ]
    /\ UNCHANGED child
    /\ OnlyCtl

remap_map_elem_read_call ==
    /\ ret' = [ op |-> "map_read" ] @@ remap_map_elem_read(priv.map)
    /\ UNCHANGED <<priv, child>>
    /\ OnlyCtl

InitMap ==
    /\ priv \in { [ map |-> m ] : m \in Maps }
    /\ child \in [ type : { SNDRV_CTL_ELEM_TYPE_INTEGER, SNDRV_CTL_ELEM_TYPE_INTEGER64 },
                   value : [ ChildIds -> [ 0..1 -> 0..MaxCtlVal ] ] ]
    /\ ret = [ op |-> "none" ]
    /\ NoStream

NextMap ==
    \/ remap_map_elem_info_call
    \/ remap_map_elem_read_call

SpecMap == InitMap /\ [][NextMap]_vars

---------------------------------------------------------------------------
(* control_remap.c: write to the controls of a sync group *)

EREMAPNOTFOUND == 888899

\* the child controls: two members of the sync group and one outside it,
\* with the numid the child gives them; none of them is the numid of a
\* virtual control, so the application sees the same numid
Members == { "S1", "S2" }
Controls == Members \cup { "P" }
ChildNumid == [ S1 |-> 2, S2 |-> 3, P |-> 4 ]

\* the id of the switch control of the group, with the numid that
\* parse_sync_compound() takes for it
SwitchId == [ numid |-> 1, name |-> "SW" ]

\* a cleared id, the switch_id of a group that has no switch
NoId == [ numid |-> 0, name |-> "" ]

\* snd_ctl_sync_t after parse_sync1(): the switch is on and the numid of
\* the members is not known
NewSync(switch_id) ==
    [ switch_id |-> switch_id, switch_state |-> TRUE,
      control_ids |-> [ m \in Members |-> [ numid |-> 0, name |-> m ] ] ]

\* the ids an application addresses a control by: by name alone, or with
\* the numid it got from the element list
AppIds(sync) ==
    UNION { { [ numid |-> n, name |-> c ] : n \in { 0, ChildNumid[c] } } : c \in Controls }
    \cup (IF sync.switch_id = NoId THEN {}
          ELSE { sync.switch_id, [ sync.switch_id EXCEPT !.numid = 0 ] })

\* remap_find_sync_switch_id(): is id the switch of the group
remap_find_sync_switch_id(sync, id) ==
    IF id.numid > 0
    THEN id.numid = sync.switch_id.numid
    ELSE sync.switch_id.numid # 0 /\ id.name = sync.switch_id.name

\* remap_find_sync_id(): is id a member of the group
remap_find_sync_id(sync, id) ==
    IF id.numid > 0
    THEN \E m \in Members : id.numid = sync.control_ids[m].numid
    ELSE \E m \in Members : id.name = sync.control_ids[m].name

\* remap_sync_elem_write(): the value returned, the group and the child
\* values it leaves
remap_sync_elem_write(sync, id, value) ==
    IF remap_find_sync_switch_id(sync, id)
    THEN [ err |-> IF (IF sync.switch_state THEN 1 ELSE 0) # value THEN 1 ELSE 0,
           sync |-> [ sync EXCEPT !.switch_state = (value # 0) ],
           child |-> child ]
    ELSE IF ~remap_find_sync_id(sync, id) \/ ~sync.switch_state
    THEN [ err |-> -EREMAPNOTFOUND, sync |-> sync, child |-> child ]
    ELSE [ err |-> 0, sync |-> sync,
           child |-> [ child EXCEPT !.value =
                         [ c \in Controls |-> IF c \in Members THEN value ELSE @[c] ] ] ]

\* snd_ctl_remap_elem_write() of a plugin with one sync group and no map:
\* what remap_sync_elem_write() does not handle is written to the child
\* control the id names
snd_ctl_remap_elem_write(sync, id, value) ==
    LET r == remap_sync_elem_write(sync, id, value)
    IN  IF r.err # -EREMAPNOTFOUND THEN r
        ELSE [ err |-> 0, sync |-> sync,
               child |-> [ child EXCEPT !.value[id.name] = value ] ]

\* remap_update_sync_id(): the member with the name of id takes its numid
remap_update_sync_id(sync, id) ==
    IF id.numid = 0 THEN sync
    ELSE [ sync EXCEPT !.control_ids =
             [ m \in Members |-> IF @[m].name = id.name
                                 THEN [ @[m] EXCEPT !.numid = id.numid ] ELSE @[m] ] ]

\* snd_ctl_remap_elem_info() of a child control: the child fills in the
\* numid, which a member of the group then keeps
snd_ctl_remap_elem_info_call(c) ==
    /\ priv' = [ priv EXCEPT !.sync =
                   remap_update_sync_id(@, [ numid |-> ChildNumid[c], name |-> c ]) ]
    /\ ret' = [ op |-> "elem_info", id |-> [ numid |-> ChildNumid[c], name |-> c ],
                value |-> 0, err |-> 0, switch_state |-> priv.sync.switch_state ]
    /\ UNCHANGED child
    /\ OnlyCtl

\* the value returned is kept for a write to the switch; for a write to a
\* child control it comes from the numid table, which is not held here
snd_ctl_remap_elem_write_call(id, value) ==
    /\ id \in AppIds(priv.sync)
    /\ LET r == snd_ctl_remap_elem_write(priv.sync, id, value)
       IN  /\ priv' = [ priv EXCEPT !.sync = r.sync ]
           /\ child' = r.child
           /\ ret' = [ op |-> "elem_write", id |-> id, value |-> value,
                       err |-> IF remap_find_sync_switch_id(priv.sync, id) THEN r.err ELSE 0,
                       switch_state |-> priv.sync.switch_state ]
    /\ OnlyCtl

InitSync ==
    /\ priv \in { [ sync |-> NewSync(id) ] : id \in { SwitchId, NoId } }
    /\ child \in [ value : [ Controls -> 0..MaxCtlVal ] ]
    /\ ret = [ op |-> "none" ]
    /\ NoStream

NextSync ==
    \/ \E c \in Controls : snd_ctl_remap_elem_info_call(c)
    \/ \E id \in AppIds(priv.sync) : \E value \in 0..MaxCtlVal :
           snd_ctl_remap_elem_write_call(id, value)

SpecSync == InitSync /\ [][NextSync]_vars

---------------------------------------------------------------------------
(* rawmidi.c: the read mode in the rawmidi parameters *)

\* the largest value of params->mode explored: the framing bits 0..2 and
\* the clock bits 3..5
MaxMode == 63
\* the largest read mode value a caller passes
MaxReadMode == 3

ENOTSUP == 95
SND_RAWMIDI_READ_STANDARD == 0
SND_RAWMIDI_READ_TSTAMP == 1
SNDRV_RAWMIDI_MODE_FRAMING_MASK == 7
SNDRV_RAWMIDI_MODE_FRAMING_NONE == 0
SNDRV_RAWMIDI_MODE_FRAMING_TSTAMP == 1
SND_RAWMIDI_STREAM_OUTPUT == "OUTPUT"
SND_RAWMIDI_STREAM_INPUT == "INPUT"

SNDRV_PROTOCOL_VERSION(major, minor, subminor) ==
    major * 65536 + minor * 256 + subminor

\* mode & mask and mode & ~mask for a mask of low bits (mask + 1 a power of 2)
AndMask(mode, mask) == mode % (mask + 1)
AndNotMask(mode, mask) == mode - (mode % (mask + 1))

\* snd_rawmidi_params_set_read_mode() without the clearing of the framing
\* bits
params_set_read_mode_or(rawmidi, mode, val) ==
    IF val \notin { SND_RAWMIDI_READ_STANDARD, SND_RAWMIDI_READ_TSTAMP }
    THEN [ err |-> -EINVAL, mode |-> mode ]
    ELSE IF val = SND_RAWMIDI_READ_TSTAMP /\ ~rawmidi.tread
    THEN [ err |-> -ENOTSUP, mode |-> mode ]
    ELSE LET framing == IF val = SND_RAWMIDI_READ_STANDARD
                        THEN SNDRV_RAWMIDI_MODE_FRAMING_NONE
                        ELSE SNDRV_RAWMIDI_MODE_FRAMING_TSTAMP
         IN  IF /\ framing # SNDRV_RAWMIDI_MODE_FRAMING_NONE
                /\ \/ rawmidi.version < SNDRV_PROTOCOL_VERSION(2, 0, 2)
                   \/ rawmidi.stream # SND_RAWMIDI_STREAM_INPUT
             THEN [ err |-> -ENOTSUP, mode |-> mode ]
             ELSE [ err |-> 0,
                    mode |-> IF AndMask(mode, SNDRV_RAWMIDI_MODE_FRAMING_MASK) >= framing
                             THEN mode ELSE mode + framing ]

\* snd_rawmidi_params_set_read_mode(): the value returned and params->mode
\* afterwards; rawmidi.tread tells whether rawmidi->ops->tread is set
snd_rawmidi_params_set_read_mode(rawmidi, mode, val) ==
    IF val \notin { SND_RAWMIDI_READ_STANDARD, SND_RAWMIDI_READ_TSTAMP }
    THEN [ err |-> -EINVAL, mode |-> mode ]
    ELSE IF val = SND_RAWMIDI_READ_TSTAMP /\ ~rawmidi.tread
    THEN [ err |-> -ENOTSUP, mode |-> mode ]
    ELSE LET framing == IF val = SND_RAWMIDI_READ_STANDARD
                        THEN SNDRV_RAWMIDI_MODE_FRAMING_NONE
                        ELSE SNDRV_RAWMIDI_MODE_FRAMING_TSTAMP
         IN  IF /\ framing # SNDRV_RAWMIDI_MODE_FRAMING_NONE
                /\ \/ rawmidi.version < SNDRV_PROTOCOL_VERSION(2, 0, 2)
                   \/ rawmidi.stream # SND_RAWMIDI_STREAM_INPUT
             THEN [ err |-> -ENOTSUP, mode |-> mode ]
             ELSE [ err |-> 0,
                    mode |-> AndNotMask(mode, SNDRV_RAWMIDI_MODE_FRAMING_MASK) + framing ]

\* snd_rawmidi_params_get_read_mode()
snd_rawmidi_params_get_read_mode(mode) ==
    IF AndMask(mode, SNDRV_RAWMIDI_MODE_FRAMING_MASK) = SNDRV_RAWMIDI_MODE_FRAMING_TSTAMP
    THEN SND_RAWMIDI_READ_TSTAMP
    ELSE SND_RAWMIDI_READ_STANDARD

\* the handles explored: with and without a tread operation, protocol
\* versions around 2.0.2, either stream
RawmidiHandles ==
    [ tread : BOOLEAN,
      version : { SNDRV_PROTOCOL_VERSION(2, 0, 1), SNDRV_PROTOCOL_VERSION(2, 0, 2),
                  SNDRV_PROTOCOL_VERSION(2, 0, 4) },
      stream : { SND_RAWMIDI_STREAM_OUTPUT, SND_RAWMIDI_STREAM_INPUT } ]

\* a handle, the parameters and the value of a call that was not made yet
ReadModeArgs ==
    { [ op |-> "args", fn |-> "set_read_mode", rawmidi |-> h, mode |-> m,
        mode_before |-> m, val |-> v, err |-> 0, read |-> 0 ] :
        h \in RawmidiHandles, m \in 0..MaxMode, v \in -1..MaxReadMode }

params_set_read_mode_call ==
    /\ ret.op = "args" /\ ret.fn = "set_read_mode"
    /\ LET r == snd_rawmidi_params_set_read_mode(ret.rawmidi, ret.mode, ret.val)
       IN  ret' = [ ret EXCEPT !.op = "set_read_mode", !.err = r.err, !.mode = r.mode ]
    /\ OnlyRet

params_get_read_mode_call ==
    /\ ret.op = "set_read_mode"
    /\ ret' = [ ret EXCEPT !.op = "get_read_mode",
                  !.read = snd_rawmidi_params_get_read_mode(ret.mode) ]
    /\ OnlyRet

InitReadMode ==
    /\ ret \in ReadModeArgs
    /\ NoPcm

NextReadMode ==
    \/ params_set_read_mode_call
    \/ params_get_read_mode_call

SpecReadMode == InitReadMode /\ [][NextReadMode]_vars

---------------------------------------------------------------------------
(* control_remap.c: the events read through the plugin, the numid table
   and the queue of the events made up for the maps and the sync groups *)

\* the largest numid the child gives to a control
MaxNumid == 8

EIO == 5
\* the entries the numid table grows by
NumidChunk == 16
SNDRV_CTL_EVENT_MASK_VALUE == 1
SNDRV_CTL_EVENT_MASK_INFO == 2
SNDRV_CTL_EVENT_MASK_ADD == 4
SNDRV_CTL_EVENT_MASK_TLV == 8
\* a bit that is none of the four above
EventMaskOther == 16
SNDRV_CTL_EVENT_MASK_REMOVE == UINT_MAX

\* a | b on unsigned int
RECURSIVE BitOr(_, _)
BitOr(a, b) ==
    IF a = 0 THEN b
    ELSE IF b = 0 THEN a
    ELSE (IF a % 2 = 1 \/ b % 2 = 1 THEN 1 ELSE 0) + 2 * BitOr(a \div 2, b \div 2)

\* the controls of the child; an id is a numid and the rest of the id, the
\* name, which snd_ctl_elem_id_compare_set() compares
ChildCtls == { "A", "B" }
ElemId(numid, name) == [ numid |-> numid, name |-> name ]

\* snd_ctl_numid_t and snd_ctl_map_event_t after calloc() or memset()
ZeroNumid == [ numid_child |-> 0, numid_app |-> 0 ]
ZeroEvent == [ id |-> "", numid_app |-> 0, event_mask |-> 0 ]

\* remap_find_numid_app() with numid_remap_active: the index of the first
\* entry with this numid_app, -1 for NULL
RECURSIVE remap_find_numid_app(_, _, _)
remap_find_numid_app(p, numid_app, index) ==
    IF index >= p.numid_items THEN -1
    ELSE IF p.numid[index + 1].numid_app = numid_app THEN index
    ELSE remap_find_numid_app(p, numid_app, index + 1)

\* remap_numid_new(): the plugin with the new entry, its index in `at`
remap_numid_new(p, numid_child, numid_app) ==
    LET grown == IF p.numid_alloc = p.numid_items
                 THEN [ p EXCEPT !.numid = p.numid \o [ i \in 1..NumidChunk |-> ZeroNumid ],
                                 !.numid_alloc = p.numid_alloc + NumidChunk ]
                 ELSE p
    IN  [ grown EXCEPT !.numid[p.numid_items + 1] =
                            [ numid_child |-> numid_child, numid_app |-> numid_app ],
                       !.numid_items = p.numid_items + 1,
                       !.at = p.numid_items ]

\* the while loop of remap_numid_child_new() over numid_app_last
RECURSIVE NextNumidApp(_, _)
NextNumidApp(p, last) ==
    IF remap_find_numid_app(p, last, 0) >= 0 THEN NextNumidApp(p, last + 1) ELSE last

\* remap_numid_child_new(): `at` is -1 for NULL
remap_numid_child_new(p, numid_child) ==
    IF numid_child = 0 THEN [ p EXCEPT !.at = -1 ]
    ELSE IF p.numid_remap_active /\ remap_find_numid_app(p, numid_child, 0) >= 0
    THEN LET last == NextNumidApp(p, p.numid_app_last)
         IN  remap_numid_new([ p EXCEPT !.numid_app_last = last ], numid_child, last)
    ELSE remap_numid_new(p, numid_child, numid_child)

RECURSIVE FindNumidChild(_, _, _)
FindNumidChild(p, numid_child, index) ==
    IF index >= p.numid_items THEN -1
    ELSE IF p.numid[index + 1].numid_child = numid_child THEN index
    ELSE FindNumidChild(p, numid_child, index + 1)

\* remap_find_numid_child() with numid_remap_active: the plugin, with the
\* index of the entry found or made in `at`, -1 for NULL
remap_find_numid_child(p, numid_child) ==
    LET index == FindNumidChild(p, numid_child, 0)
    IN  IF index >= 0 THEN [ p EXCEPT !.at = index ]
        ELSE remap_numid_child_new(p, numid_child)

\* memcpy(&numid[index], &numid[index + 1], count entries): the regions
\* overlap when count > 1, which memcpy() leaves undefined; a copy from the
\* low addresses up moves the entries down by one, a copy from the high
\* addresses down leaves the last entry in all of them
MemcpyDown(numid, index, count) ==
    LET up == [ i \in 1..Len(numid) |->
                  IF i > index /\ i <= index + count THEN numid[i + 1] ELSE numid[i] ]
        down == [ i \in 1..Len(numid) |->
                  IF i > index /\ i <= index + count THEN numid[index + count + 1]
                  ELSE numid[i] ]
    IN  IF count > 1 THEN { up, down } ELSE { up }

\* remap_forget_numid_child() with numid_remap_active, from `index` on: the
\* tables and item counts it can leave. overrun: an entry beyond the
\* numid_alloc entries of the table was read, and the loop is followed no
\* further
RECURSIVE remap_forget_numid_child(_, _, _, _)
remap_forget_numid_child(numid, numid_items, numid_child, index) ==
    IF index >= numid_items
    THEN { [ numid |-> numid, numid_items |-> numid_items, overrun |-> FALSE ] }
    ELSE IF index >= Len(numid)
    THEN { [ numid |-> numid, numid_items |-> numid_items, overrun |-> TRUE ] }
    ELSE IF numid[index + 1].numid_child # numid_child
    THEN remap_forget_numid_child(numid, numid_items, numid_child, index + 1)
    ELSE IF numid_items > Len(numid) /\ numid_items - 1 - index > 0
    THEN { [ numid |-> numid, numid_items |-> numid_items, overrun |-> TRUE ] }
    ELSE UNION { remap_forget_numid_child(copied, numid_items + 1, numid_child, index + 1) :
                   copied \in MemcpyDown(numid, index, numid_items - 1 - index) }

\* _next_ptr()
next_ptr(ptr, count) == (ptr + 1) % count

\* the search loop of event_add(): the place in the queue of the event with
\* this numid_app, between head and the tail, -1 if there is none
RECURSIVE QueueFind(_, _, _)
QueueFind(p, head, numid_app) ==
    IF head = p.event_queue_tail THEN -1
    ELSE IF p.event_queue[head + 1].numid_app = numid_app THEN head
    ELSE QueueFind(p, next_ptr(head, p.event_items), numid_app)

\* event_add(); `queued` lists the numid_app of the events the calls asked
\* for and no read has returned, each once
event_add(p, id, numid_app, event_mask) ==
    LET found == QueueFind(p, p.event_queue_head, numid_app)
        asked == [ p EXCEPT !.queued = IF \E i \in 1..Len(p.queued) : p.queued[i] = numid_app
                                       THEN p.queued ELSE Append(p.queued, numid_app) ]
    IN  IF found >= 0
        THEN [ asked EXCEPT !.event_queue[found + 1].event_mask =
                                BitOr(p.event_queue[found + 1].event_mask, event_mask) ]
        ELSE [ asked EXCEPT !.event_queue[p.event_queue_tail + 1] =
                                [ id |-> id, numid_app |-> numid_app,
                                  event_mask |-> event_mask ],
                            !.event_queue_tail = next_ptr(p.event_queue_tail, p.event_items) ]

\* the loop over the controls of one map or one sync group: an id without
\* numid that compares equal learns the numid of the event
LearnNumid(ids, id) ==
    [ i \in 1..Len(ids) |->
        IF ids[i].numid = 0 /\ ids[i].name = id.name
        THEN [ ids[i] EXCEPT !.numid = id.numid ] ELSE ids[i] ]

\* remap_event_for_all_map_controls(), from map `m` on
RECURSIVE MapEvents(_, _, _, _)
MapEvents(p, m, id, event_mask) ==
    IF m > Len(p.map) THEN p
    ELSE LET controls == LearnNumid(p.map[m].controls, id)
             changed == \E i \in 1..Len(controls) : controls[i].numid = id.numid
             learned == [ p EXCEPT !.map[m].controls = controls ]
         IN  MapEvents(IF changed
                       THEN event_add(learned, p.map[m].map_id.name,
                                      p.map[m].map_id.numid, event_mask)
                       ELSE learned,
                       m + 1, id, event_mask)

remap_event_for_all_map_controls(p, id, event_mask) ==
    MapEvents(p, 1, id,
              IF event_mask = SNDRV_CTL_EVENT_MASK_REMOVE
              THEN SNDRV_CTL_EVENT_MASK_INFO ELSE event_mask)

\* the first loop over the controls of a sync group: it stops at the first
\* control with the numid of the event, and the ones after it learn nothing
RECURSIVE SyncLearn(_, _, _)
SyncLearn(ids, id, index) ==
    IF index > Len(ids) THEN [ ids |-> ids, changed |-> FALSE ]
    ELSE LET sid == IF ids[index].numid = 0 /\ ids[index].name = id.name
                    THEN [ ids[index] EXCEPT !.numid = id.numid ] ELSE ids[index]
             now == [ ids EXCEPT ![index] = sid ]
         IN  IF sid.numid = id.numid THEN [ ids |-> now, changed |-> TRUE ]
             ELSE SyncLearn(now, id, index + 1)

\* the second loop: an event for every other control of the group
RECURSIVE SyncOthers(_, _, _, _, _)
SyncOthers(p, s, index, id, event_mask) ==
    IF index > Len(p.sync[s].control_ids) THEN p
    ELSE LET sid == p.sync[s].control_ids[index]
             found == remap_find_numid_child(p, sid.numid)
         IN  IF sid.numid = id.numid THEN SyncOthers(p, s, index + 1, id, event_mask)
             ELSE SyncOthers(IF found.at >= 0
                             THEN event_add(found, sid.name,
                                            found.numid[found.at + 1].numid_app, event_mask)
                             ELSE found,
                             s, index + 1, id, event_mask)

\* remap_event_for_all_sync_controls(), from sync group `s` on
RECURSIVE SyncEvents(_, _, _, _)
SyncEvents(p, s, id, event_mask) ==
    IF s > Len(p.sync) THEN p
    ELSE LET l == SyncLearn(p.sync[s].control_ids, id, 1)
             learned == [ p EXCEPT !.sync[s].control_ids = l.ids ]
         IN  SyncEvents(IF l.changed THEN SyncOthers(learned, s, 1, id, event_mask)
                        ELSE learned,
                        s + 1, id, event_mask)

remap_event_for_all_sync_controls(p, id, event_mask) ==
    IF event_mask = SNDRV_CTL_EVENT_MASK_REMOVE THEN p
    ELSE SyncEvents(p, 1, id, event_mask)

\* (mask & (VALUE | INFO | ADD | TLV)) != 0
MaskOfElem(mask) ==
    mask % (2 * SNDRV_CTL_EVENT_MASK_TLV) # 0

NoForget == [ numid_child |-> 0, numid |-> <<>>, numid_items |-> 0 ]

\* snd_ctl_remap_read() of a plugin without id remaps (remap_items = 0), when
\* snd_ctl_read() on the child gives err and, for err > 0, the element event
\* (id, mask): the plugins it can leave, each with the value returned and the
\* event handed to the caller. forget is the table as it was when
\* remap_forget_numid_child() was called.
snd_ctl_remap_read(p, err, id, mask) ==
    IF p.event_queue_head # p.event_queue_tail
    THEN LET map_event == p.event_queue[p.event_queue_head + 1]
         IN  { [ priv |-> [ p EXCEPT !.event_queue_head =
                                         next_ptr(p.event_queue_head, p.event_items),
                                     !.queued = SelectSeq(p.queued,
                                         LAMBDA n : n # map_event.numid_app) ],
                 err |-> 1, from |-> "queue",
                 id |-> ElemId(map_event.numid_app, map_event.id),
                 mask |-> map_event.event_mask, forget |-> NoForget ] }
    ELSE IF err <= 0
    THEN { [ priv |-> p, err |-> err, from |-> "child", id |-> ElemId(0, ""), mask |-> 0,
             forget |-> NoForget ] }
    ELSE IF ~(mask = SNDRV_CTL_EVENT_MASK_REMOVE \/ MaskOfElem(mask))
    THEN { [ priv |-> p, err |-> err, from |-> "child", id |-> id, mask |-> mask,
             forget |-> NoForget ] }
    ELSE LET maps == remap_event_for_all_map_controls(p, id, mask)
             syncs == remap_event_for_all_sync_controls(maps, id, mask)
             found == remap_find_numid_child(syncs, id.numid)
         IN  IF found.at < 0
             THEN { [ priv |-> found, err |-> -EIO, from |-> "child", id |-> id,
                      mask |-> mask, forget |-> NoForget ] }
             ELSE IF mask # SNDRV_CTL_EVENT_MASK_REMOVE
             THEN { [ priv |-> found, err |-> err, from |-> "child",
                      id |-> ElemId(found.numid[found.at + 1].numid_app, id.name),
                      mask |-> mask, forget |-> NoForget ] }
             ELSE { [ priv |-> [ found EXCEPT !.numid = f.numid,
                                              !.numid_items = f.numid_items,
                                              !.overrun = f.overrun ],
                      err |-> err, from |-> "child",
                      id |-> ElemId(found.numid[found.at + 1].numid_app, id.name),
                      mask |-> mask,
                      forget |-> [ numid_child |-> id.numid, numid |-> found.numid,
                                   numid_items |-> found.numid_items ] ] :
                    f \in remap_forget_numid_child(found.numid, found.numid_items,
                                                   id.numid, 0) }

\* the names of the map controls, in the order of the configuration
MapNames == << "M1", "M2" >>

\* new_map() and parse_map1() for maps of the given child controls
RECURSIVE NewMaps(_, _)
NewMaps(p, controls) ==
    IF controls = <<>> THEN p
    ELSE LET made == remap_numid_new([ p EXCEPT !.numid_app_last = p.numid_app_last + 1 ],
                                     0, p.numid_app_last + 1)
             map == [ map_id |-> ElemId(p.numid_app_last + 1, MapNames[Len(p.map) + 1]),
                      controls |-> [ i \in 1..Len(Head(controls)) |->
                                        ElemId(0, Head(controls)[i]) ] ]
         IN  NewMaps([ made EXCEPT !.map = Append(p.map, map) ], Tail(controls))

\* the sum of the control_items of the sync groups
RECURSIVE SyncControlItems(_)
SyncControlItems(sync) ==
    IF sync = <<>> THEN 0
    ELSE Len(Head(sync).control_ids) + SyncControlItems(Tail(sync))

\* snd_ctl_remap_open() for the maps and the sync groups of a configuration
RemapOpen(controls, groups) ==
    LET empty == [ map |-> <<>>, sync |-> <<>>, numid |-> <<>>, numid_items |-> 0,
                   numid_alloc |-> 0, numid_app_last |-> 0, numid_remap_active |-> FALSE,
                   event_items |-> 0, event_queue_head |-> 0, event_queue_tail |-> 0,
                   event_queue |-> <<>>, queued |-> <<>>, at |-> -1, overrun |-> FALSE ]
        maps == NewMaps(empty, controls)
        syncs == [ maps EXCEPT !.sync = [ g \in 1..Len(groups) |->
                      [ control_ids |-> [ i \in 1..Len(groups[g]) |->
                                             ElemId(0, groups[g][i]) ] ] ] ]
        items == Len(syncs.map) + SyncControlItems(syncs.sync)
    IN  [ syncs EXCEPT !.event_items = items,
                       !.event_queue = [ i \in 1..items |-> ZeroEvent ],
                       !.numid_remap_active = Len(syncs.map) > 0 \/ Len(syncs.sync) > 0 ]

\* the configurations: one map or two, of one child control or of both, with
\* or without a sync group of the two child controls, and the group alone
RemapConfigs ==
    { RemapOpen(c, g) :
        c \in { <<>>, << <<"A">> >>, << <<"A", "B">> >>, << <<"A">>, <<"B">> >>,
                << <<"A">>, <<"A", "B">> >> },
        g \in { <<>>, << <<"A", "B">> >> } }
    \ { RemapOpen(<<>>, <<>>) }

\* the element events of the child: a change of a control that exists, and
\* for control A, which comes and goes, its removal and its return under the
\* next numid
ChildEvents ==
    { [ name |-> c, mask |-> m ] :
        c \in ChildCtls, m \in { SNDRV_CTL_EVENT_MASK_VALUE, EventMaskOther } }
    \cup { [ name |-> "A", mask |-> m ] :
             m \in { SNDRV_CTL_EVENT_MASK_REMOVE, SNDRV_CTL_EVENT_MASK_ADD } }

\* snd_ctl_read() on the plugin when the child has no event to give
remap_read_none_call ==
    /\ ~priv.overrun
    /\ \E r \in snd_ctl_remap_read(priv, 0, ElemId(0, ""), 0) :
          /\ priv' = r.priv
          /\ ret' = [ op |-> "read", err |-> r.err, from |-> r.from, id |-> r.id,
                      mask |-> r.mask, forget |-> r.forget ]
    /\ UNCHANGED child
    /\ OnlyCtl

\* snd_ctl_read() on the plugin when the child has the event ev to give; the
\* child is read only when the queue of the plugin looks empty
remap_read_event_call(ev) ==
    /\ ~priv.overrun
    /\ IF ev.mask = SNDRV_CTL_EVENT_MASK_ADD
       THEN child.numid[ev.name] = 0 /\ child.last < MaxNumid
       ELSE child.numid[ev.name] > 0
    /\ LET numid == IF ev.mask = SNDRV_CTL_EVENT_MASK_ADD THEN child.last + 1
                    ELSE child.numid[ev.name]
           fetched == priv.event_queue_head = priv.event_queue_tail
       IN  /\ \E r \in snd_ctl_remap_read(priv, 1, ElemId(numid, ev.name), ev.mask) :
                 /\ priv' = r.priv
                 /\ ret' = [ op |-> "read", err |-> r.err, from |-> r.from, id |-> r.id,
                             mask |-> r.mask, forget |-> r.forget ]
           /\ child' = IF ~fetched THEN child
                       ELSE IF ev.mask = SNDRV_CTL_EVENT_MASK_ADD
                       THEN [ numid |-> [ child.numid EXCEPT ![ev.name] = numid ],
                              last |-> numid ]
                       ELSE IF ev.mask = SNDRV_CTL_EVENT_MASK_REMOVE
                       THEN [ child EXCEPT !.numid[ev.name] = 0 ]
                       ELSE child
    /\ OnlyCtl

InitRead ==
    /\ priv \in RemapConfigs
    /\ child \in { [ numid |-> [ c \in ChildCtls |-> IF c \in present
                                                   THEN (IF c = "A" THEN 1 ELSE 2) ELSE 0 ],
                     last |-> 2 ] : present \in SUBSET ChildCtls }
    /\ ret = [ op |-> "none" ]
    /\ NoStream

NextRead ==
    \/ remap_read_none_call
    \/ \E ev \in ChildEvents : remap_read_event_call(ev)

SpecRead == InitRead /\ [][NextRead]_vars

---------------------------------------------------------------------------
(* snd_pcm_mmap_avail() while the hardware moves hw_ptr *)

\* the application starts a call of snd_pcm_mmap_avail(): neither pointer is
\* read yet (-1)
mmap_avail_enter ==
    /\ ret.op \in { "none", "avail_done" }
    /\ ret' = [ op |-> "avail", hw |-> -1, appl |-> -1, avail |-> 0 ]
    /\ UNCHANGED <<pcm, state, appl_ptr, hw_ptr, appl_start, appl_total, hw_total,
                   lockvars, refvars, ctlvars>>

\* the read of *pcm->hw.ptr for the argument of __snd_pcm_avail(); the
\* order of the two reads is not fixed by the language
mmap_avail_read_hw ==
    /\ ret.op = "avail" /\ ret.hw = -1
    /\ ret' = [ ret EXCEPT !.hw = hw_ptr ]
    /\ UNCHANGED <<pcm, state, appl_ptr, hw_ptr, appl_start, appl_total, hw_total,
                   lockvars, refvars, ctlvars>>

\* the read of *pcm->appl.ptr
mmap_avail_read_appl ==
    /\ ret.op = "avail" /\ ret.appl = -1
    /\ ret' = [ ret EXCEPT !.appl = appl_ptr ]
    /\ UNCHANGED <<pcm, state, appl_ptr, hw_ptr, appl_start, appl_total, hw_total,
                   lockvars, refvars, ctlvars>>

\* __snd_pcm_avail() on the two values read, and the return
mmap_avail_return ==
    /\ ret.op = "avail" /\ ret.hw # -1 /\ ret.appl # -1
    /\ ret' = [ ret EXCEPT !.op = "avail_done",
                           !.avail = __snd_pcm_avail(pcm, ret.hw, ret.appl) ]
    /\ UNCHANGED <<pcm, state, appl_ptr, hw_ptr, appl_start, appl_total, hw_total,
                   lockvars, refvars, ctlvars>>

\* the application moves appl_ptr by frames it was told are available
mmap_commit(frames) ==
    /\ ret.op = "avail_done"
    /\ frames <= ret.avail
    /\ appl_total + frames <= MaxCycles * pcm.boundary
    /\ appl_ptr' = snd_pcm_mmap_appl_forward(pcm, frames)
    /\ appl_total' = appl_total + frames
    /\ ret' = [ op |-> "none" ]
    /\ UNCHANGED <<pcm, state, hw_ptr, appl_start, hw_total, lockvars, refvars, ctlvars>>

\* the frames the hardware can move without an xrun: the frames written and
\* not played, or the room left for captured frames
HwRoom ==
    IF pcm.stream = SND_PCM_STREAM_PLAYBACK
    THEN appl_total - hw_total
    ELSE pcm.buffer_size - (hw_total - appl_total)

\* the hardware advances hw_ptr at any moment, short of an xrun
HardwareRun(frames) ==
    /\ frames <= HwRoom
    /\ HardwareAdvance(frames)

\* a running stream with empty buffer, both pointers at 0
InitMmapAvail ==
    /\ pcm \in UNION { Setups(OpenPcm(s, LongBits)) :
                         s \in { SND_PCM_STREAM_PLAYBACK, SND_PCM_STREAM_CAPTURE } }
    /\ state = SND_PCM_STATE_RUNNING
    /\ appl_ptr = 0 /\ hw_ptr = 0
    /\ appl_start = 0 /\ appl_total = 0 /\ hw_total = 0
    /\ ret = [ op |-> "none" ]
    /\ LockIdle /\ RefineIdle /\ CtlIdle

NextMmapAvail ==
    \/ mmap_avail_enter
    \/ mmap_avail_read_hw
    \/ mmap_avail_read_appl
    \/ mmap_avail_return
    \/ \E frames \in 1..pcm.buffer_size : mmap_commit(frames)
    \/ \E frames \in 1..pcm.buffer_size : HardwareRun(frames)

SpecMmapAvail == InitMmapAvail /\ [][NextMmapAvail]_vars

---------------------------------------------------------------------------
(* Claims on the available-frame count *)

ScenarioCase ==
    /\ pcm.stream = SND_PCM_STREAM_PLAYBACK
    /\ pcm.buffer_size = 8192
    /\ hw_total = 4096 /\ appl_total = 0

C4_CaptureAvailModBoundary ==
    ret.op = "capture_avail" =>
        /\ ret.avail = (hw_ptr - appl_ptr) % pcm.boundary
        /\ ret.avail = IF hw_ptr >= appl_ptr THEN hw_ptr - appl_ptr
                       ELSE hw_ptr - appl_ptr + pcm.boundary
        /\ ret.avail \in 0..(pcm.boundary - 1)

\* C4 witness: a capture call with hw_ptr below appl_ptr (hw_ptr wrapped at
\* the boundary, appl_ptr not yet) returned the difference plus boundary.
C4_Witness ==
    /\ ret.op = "capture_avail"
    /\ hw_ptr < appl_ptr
    /\ ret.avail = hw_ptr - appl_ptr + pcm.boundary

---------------------------------------------------------------------------
(* Claims on xrun, the error mapping and the pointers *)

\* what snd_pcm_check_error is to return for an error seen in a state
CheckErrorExpected(st, err) ==
    IF err = "-EINTR" /\ st = SND_PCM_STATE_DISCONNECTED THEN "-ENODEV"
    ELSE IF err = "-EINTR" /\ st = SND_PCM_STATE_SUSPENDED THEN "-ESTRPIPE"
    ELSE IF err = "-EINTR" /\ st = SND_PCM_STATE_XRUN THEN "-EPIPE"
    ELSE err

\* a transfer call was made and saw the stream in state st
TransferSaw(st) == ret.op \in { "writei", "readi" } /\ ret.st = st

C6_PointersBelowBoundary ==
    pcm.setup = 1 =>
        /\ appl_ptr >= 0 /\ appl_ptr < pcm.boundary
        /\ hw_ptr >= 0 /\ hw_ptr < pcm.boundary
        /\ appl_ptr = (appl_start + appl_total) % pcm.boundary
        /\ hw_ptr = hw_total % pcm.boundary
        /\ pcm.boundary % pcm.buffer_size = 0

\* C6 witness: both pointers were advanced past the boundary.
C6_Witness ==
    /\ pcm.setup = 1
    /\ appl_total > pcm.boundary /\ hw_total > pcm.boundary
    /\ appl_ptr < appl_total /\ hw_ptr < hw_total

\* C7: when appl_ptr has been advanced by exactly boundary frames in all, in
\* one step or in several, it is back at its start value, and so are the
\* buffer offset and the available-frame count.
C7_ForwardByBoundary ==
    appl_total = pcm.boundary =>
        /\ appl_ptr = appl_start
        /\ snd_pcm_mmap_offset(pcm, appl_ptr) = appl_start % pcm.buffer_size
        /\ snd_pcm_mmap_avail(pcm) = __snd_pcm_avail(pcm, hw_ptr, appl_start)

\* C7 witness: appl_ptr advanced by boundary frames in all from a start
\* value that is not 0.
C7_Witness ==
    /\ appl_total = pcm.boundary
    /\ appl_start > 0
    /\ appl_ptr = appl_start

\* C9: snd_pcm_check_error maps -EINTR to -ENODEV in DISCONNECTED, to
\* -ESTRPIPE in SUSPENDED and to -EPIPE in XRUN, and returns every other
\* error, and -EINTR in every other state, unchanged; so a transfer call on
\* a disconnected or suspended stream returns -ENODEV or -ESTRPIPE.
C9_CheckError ==
    /\ \A err \in Errs :
          snd_pcm_check_error(pcm, err) = CheckErrorExpected(__snd_pcm_state(pcm), err)
    /\ ret.op # "none" => ret.err = CheckErrorExpected(ret.st, ret.raw)
    /\ TransferSaw(SND_PCM_STATE_DISCONNECTED) => ret.err = "-ENODEV"
    /\ TransferSaw(SND_PCM_STATE_SUSPENDED) => ret.err = "-ESTRPIPE"

\* C9 witness: an interrupted transfer call on a disconnected stream returned
\* -ENODEV.
C9_Witness ==
    /\ state = SND_PCM_STATE_DISCONNECTED
    /\ ret.raw = "-EINTR" /\ ret.st = SND_PCM_STATE_DISCONNECTED
    /\ ret.err = "-ENODEV"

---------------------------------------------------------------------------
(* Claims on the lock *)

\* the threads between snd_pcm_lock and snd_pcm_unlock, and those between
\* __snd_pcm_lock and __snd_pcm_unlock
Inside == { t \in Threads : At(t, "in") }
InsideForced == { t \in Threads : At(t, "in_forced") }

\* C8: with lock_enabled and need_lock at most one thread is between
\* snd_pcm_lock and snd_pcm_unlock (it owns the mutex); with lock_enabled
\* and need_lock = 0 snd_pcm_lock / snd_pcm_unlock leave the mutex alone and
\* at most one thread is between __snd_pcm_lock and __snd_pcm_unlock; with
\* lock_enabled = 0 the mutex is never taken.
C8_LockSerializes ==
    /\ [](lock_enabled # 0 /\ need_lock # 0 =>
            /\ Cardinality(Inside \cup InsideForced) <= 1
            /\ \A t \in Inside : lock = t)
    /\ [](lock_enabled # 0 /\ need_lock = 0 =>
            /\ \A t \in Inside : lock # t
            /\ Cardinality(InsideForced) <= 1
            /\ \A t \in InsideForced : lock = t)
    /\ [](lock_enabled = 0 => lock = 0)
    /\ [][\A t \in Threads :
            lock_enabled # 0 /\ need_lock = 0 /\ (At(t, "in") # At(t, "in")')
                => lock' = lock]_vars

\* C8 witness: on a thread-unsafe handle one thread is inside and the other
\* waits in snd_pcm_lock for the mutex.
C8_Witness ==
    /\ lock_enabled = 1 /\ need_lock = 1
    /\ \E t \in Threads, u \in Threads :
          /\ t # u /\ At(t, "in") /\ At(u, "wait") /\ lock = t /\ tpc[u].n > 0

---------------------------------------------------------------------------
(* Claims on refinement *)

C11_RateRequestFails ==
    /\ [](rstat.op = "rate" =>
            /\ rstat.err = "-EINVAL" /\ rstat.empty = "rate"
            /\ snd_pcm_hw_param_empty(params, "rate"))
    /\ [](rstat.op \in DOMAIN ScenarioRequest \ { "rate" } => rstat.err = "0")
    /\ [][rstat.op = "rate" /\ rstat' # rstat => rstat' = NoStat]_vars
    /\ [][params'.rate = caps.rate /\ params.rate # caps.rate => rstat'.op # "rate"]_vars

\* C11 witness: the rate request failed after the other four requests were
\* made and had succeeded.
C11_Witness ==
    /\ rstat.op = "rate" /\ rstat.err = "-EINVAL" /\ rstat.empty = "rate"
    /\ rstat.sets = Cardinality(DOMAIN ScenarioRequest)
    /\ params.format = ScenarioRequest.format
    /\ snd_interval_single(params.channels) /\ params.channels.min = 2
    /\ snd_interval_single(params.period_size) /\ params.period_size.min = 1024
    /\ snd_interval_single(params.periods) /\ params.periods.min = 4
    /\ snd_interval_single(params.buffer_size) /\ params.buffer_size.min = 4096

Narrowed(q, p) ==
    /\ \A f \in MaskFields : q[f] \subseteq p[f]
    /\ \A f \in IntervalFields : IntervalWithin(q[f], p[f])

\* C13: every step other than the explicit reset leaves in every Interval a
\* subset of its values before the step and in every Mask a subset of its
\* bits; a Parameter Space never holds more than the "any" space.
C13_RefineOnlyNarrows ==
    /\ [][rstat' # NoStat => Narrowed(params', params)]_vars
    /\ [](Narrowed(params, snd_pcm_hw_params_any))

\* C13 witness: a second call narrowed, by the rules between the fields, a
\* field that the first call had narrowed already.
C13_Witness ==
    /\ rstat.sets = 2 /\ rstat.err = "0"
    /\ rstat.op = "set_min"
    /\ params.format # Formats
    /\ params.buffer_size.min > caps.buffer_size.min
    /\ params.period_size.min > caps.period_size.min
    /\ params.periods.max < caps.periods.max

---------------------------------------------------------------------------
(* Claims on the UMP helpers *)

\* C15 as stated: snd_ump_packet_length returns the table's entry, between
\* 1 and 4, for every type 0..15 and 0 for every other type, and it reads
\* no element of packet_length outside 0..15.
C15_PacketLengthInTable ==
    ret.op = "packet_length" =>
        /\ ret.type \in 0..15 =>
              ret.val = packet_length[ret.type + 1] /\ ret.val \in 1..4
        /\ ret.type \notin 0..15 => ret.val = 0
        /\ ret.index = -1 \/ ret.index \in 0..15

\* C15 failing case: type 16 passes the guard and packet_length[16], past
\* the end of the table, is read and returned.
C15_Witness ==
    /\ ret.op = "packet_length"
    /\ ret.type = 16 /\ ret.index = 16
    /\ ret.val \notin 0..4

\* the packet is one the expansion accepts
SysexValid(ump) ==
    \/ /\ snd_ump_msg_type(ump) = SND_UMP_MSG_TYPE_DATA
       /\ snd_ump_sysex_msg_length(ump) \in 0..6
    \/ /\ snd_ump_msg_type(ump) = SND_UMP_MSG_TYPE_EXTENDED_DATA
       /\ snd_ump_sysex_msg_length(ump) \in 1..14
       /\ snd_ump_sysex_msg_status(ump) <= SND_UMP_SYSEX_STATUS_END

\* C16 as stated: snd_ump_msg_sysex_expand stores at most maxlen bytes in
\* buf and reports *filled <= maxlen; it returns -EINVAL for a message type
\* other than DATA and EXTENDED_DATA, and otherwise 1 exactly when the
\* packet is valid and its status is SINGLE or END, 0 if not.
C16_SysexExpandWithinMaxlen ==
    ret.op = "sysex_expand" =>
        /\ Len(ret.out.stored) <= ret.maxlen
        /\ ret.out.filled <= ret.maxlen
        /\ ret.overrun = "none"
        /\ ret.out.val = IF snd_ump_msg_type(ret.ump) \notin
                               { SND_UMP_MSG_TYPE_DATA, SND_UMP_MSG_TYPE_EXTENDED_DATA }
                         THEN "-EINVAL"
                         ELSE IF SysexValid(ret.ump)
                              THEN SysexEnd(snd_ump_sysex_msg_status(ret.ump))
                              ELSE "0"

\* C16 failing case: a valid SysEx7 packet of 6 bytes expanded into a buffer
\* of 2 bytes: 6 bytes are stored and *filled is 6.
C16_Witness ==
    /\ ret.op = "sysex_expand"
    /\ snd_ump_msg_type(ret.ump) = SND_UMP_MSG_TYPE_DATA
    /\ snd_ump_sysex_msg_length(ret.ump) = 6
    /\ ret.maxlen = 2
    /\ Len(ret.out.stored) = 6 /\ ret.out.filled = 6
    /\ ret.overrun = "corrupted"

---------------------------------------------------------------------------
(* Claims on the dB conversion of control/tlv.c *)

\* the dB of a raw value under the TLV of the last conversion
RetDb(v) == snd_tlv_convert_to_dB(ret.tlv, ret.rangemin, ret.rangemax, v)
Dist(a, b) == IF a >= b THEN a - b ELSE b - a

\* the last conversion was asked for a gain strictly between the least and
\* the greatest dB of a DB_SCALE or DB_MINMAX TLV
FromDbBetween ==
    /\ ret.op = "convert_from_dB"
    /\ ret.tlv[1] \in { SND_CTL_TLVT_DB_SCALE, SND_CTL_TLVT_DB_MINMAX }
    /\ TlvMinDb(ret.tlv) < ret.db_gain
    /\ ret.db_gain < TlvMaxDb(ret.tlv, ret.rangemin, ret.rangemax)

\* C17: for a gain strictly between the least and the greatest dB,
\* snd_tlv_convert_from_dB() returns the smallest raw value whose dB is at
\* least the gain when xdir > 0, the largest raw value whose dB is at most
\* the gain when xdir < 0, and a raw value whose dB is nearest to the gain
\* when xdir = 0, the dB of a raw value being what snd_tlv_convert_to_dB()
\* gives.
C17_FromDbHonoursXdir ==
    FromDbBetween =>
        LET value == ret.fn
            Raw   == ret.rangemin..ret.rangemax
        IN  /\ value \in Raw
            /\ ret.xdir > 0 =>
                  /\ RetDb(value) >= ret.db_gain
                  /\ \A v \in Raw : RetDb(v) >= ret.db_gain => v >= value
            /\ ret.xdir < 0 =>
                  /\ RetDb(value) <= ret.db_gain
                  /\ \A v \in Raw : RetDb(v) <= ret.db_gain => v <= value
            /\ ret.xdir = 0 =>
                  \A v \in Raw :
                      Dist(RetDb(value), ret.db_gain) <= Dist(RetDb(v), ret.db_gain)

\* a DB_MINMAX conversion rounding down returned a raw value although the
\* next raw value has a dB that is not above the gain
C17_Witness ==
    /\ FromDbBetween
    /\ ret.tlv[1] = SND_CTL_TLVT_DB_MINMAX
    /\ ret.xdir < 0
    /\ ret.fn + 1 <= ret.rangemax
    /\ RetDb(ret.fn + 1) <= ret.db_gain

---------------------------------------------------------------------------
(* Claims on the TLV search of control/tlv.c *)

RECURSIVE TlvEntry(_, _, _)
RECURSIVE TlvEntries(_, _, _)

\* what a reader of the TLV layout finds in the entry at word `at` with
\* `bytes` bytes left: the dB entries in it and whether it is malformed
\* (too short for a header, a declared length beyond the bytes left, a dB
\* entry below its minimum or above MAX_TLV_RANGE_SIZE)
TlvEntry(tlv, at, bytes) ==
    IF bytes < MIN_TLV_STREAM_LEN \/ TlvWord(tlv, at + 1) > bytes - MIN_TLV_STREAM_LEN
    THEN [ dbs |-> {}, bad |-> TRUE ]
    ELSE LET type == TlvWord(tlv, at)
             len  == TlvWord(tlv, at + 1)
         IN  IF type \in DbTypes
             THEN [ dbs |-> { at },
                    bad |-> len < DbMinSize(type) \/ len > MAX_TLV_RANGE_SIZE ]
             ELSE IF type = SND_CTL_TLVT_CONTAINER
             THEN TlvEntries(tlv, at + 2, len)
             ELSE [ dbs |-> {}, bad |-> FALSE ]

\* the same for the entries that fill `bytes` bytes from word `at`, each
\* entry padded to whole words
TlvEntries(tlv, at, bytes) ==
    IF bytes <= 0
    THEN [ dbs |-> {}, bad |-> FALSE ]
    ELSE LET e == TlvEntry(tlv, at, bytes)
         IN  IF bytes < MIN_TLV_STREAM_LEN
                \/ TlvWord(tlv, at + 1) > bytes - MIN_TLV_STREAM_LEN
             THEN e
             ELSE LET words == 2 + int_index(TlvWord(tlv, at + 1))
                      rest  == TlvEntries(tlv, at + words, bytes - 4 * words)
                  IN  [ dbs |-> e.dbs \cup rest.dbs, bad |-> e.bad \/ rest.bad ]

\* C18: snd_tlv_parse_dB_info() reads no word that does not lie within
\* tlv_size bytes; it returns the byte size of a dB entry (its payload size
\* plus 8) with *db_tlvp at that entry, which lies within the stream, when
\* the stream holds a dB TLV at the top level or in nested containers,
\* -ENOENT when it holds none, and -EINVAL when the stream is shorter than
\* 8 bytes, a declared length exceeds the bytes left, or a dB entry is
\* below its minimum or above 256 bytes.
C18_ParseDbInfo ==
    ret.op = "parse_dB_info" =>
        LET found == TlvEntry(ret.tlv, 1, ret.tlv_size)
        IN  /\ \A w \in ret.reads : 4 * w <= ret.tlv_size
            /\ ret.fn > 0 \/ ret.fn = -ENOENT \/ ret.fn = -EINVAL
            /\ ret.tlv_size < MIN_TLV_STREAM_LEN => ret.fn = -EINVAL
            /\ ret.fn = -EINVAL => found.bad
            /\ ret.fn = -ENOENT => found.dbs = {}
            /\ (found.dbs # {} /\ ~found.bad) => ret.fn > 0
            /\ ret.fn > 0 =>
                  /\ ret.db_tlvp \in found.dbs
                  /\ ret.fn = TlvWord(ret.tlv, ret.db_tlvp + 1) + 8
                  /\ ret.fn >= DbMinSize(TlvWord(ret.tlv, ret.db_tlvp)) + 8
                  /\ ret.fn <= MAX_TLV_RANGE_SIZE + 8
                  /\ 4 * (ret.db_tlvp - 1) + ret.fn <= ret.tlv_size

\* a search of a container whose length is not a multiple of the word size
\* read a word that reaches beyond tlv_size bytes
C18_Witness ==
    /\ ret.op = "parse_dB_info"
    /\ ret.tlv[1] = SND_CTL_TLVT_CONTAINER
    /\ ret.tlv_size >= MIN_TLV_STREAM_LEN
    /\ ret.tlv[2] <= ret.tlv_size - MIN_TLV_STREAM_LEN
    /\ \E w \in ret.reads : 4 * w > ret.tlv_size

---------------------------------------------------------------------------
(* Claims on the remap control plugin *)

\* the source channels that feed channel index of the map control, each
\* with the child control it belongs to
MapSources(map, index) ==
    { cs \in ChildIds \X (0..(ValueSize - 1)) :
        \E item \in 1..Len(map.controls) :
            LET mctl == map.controls[item]
            IN  /\ mctl.id_child = cs[1]
                /\ index < mctl.channel_map_items
                /\ \E src_index \in 0..(mctl.src_channels - 1) :
                      mctl.channel_map[mctl.src_channels * index + src_index + 1] = cs[2] }

\* the least value the child holds on a set of source channels
LeastOf(sources) ==
    CHOOSE v \in { Control2(cs[1], cs[2]) : cs \in sources } :
        \A cs \in sources : v <= Control2(cs[1], cs[2])

\* C19: a read of the virtual map control returns, on every channel fed by
\* source channels, the least of the child's values on those source
\* channels; a channel with a single source gets that source's value.
C19_MapReadMinimum ==
    (ret.op = "map_read" /\ ret.err = 0) =>
        \A index \in 0..(MaxDest - 1) :
            MapSources(priv.map, index) # {} =>
                ret.value[index] = LeastOf(MapSources(priv.map, index))

\* the map control was read before remap_map_elem_info() was called on it,
\* with a channel whose sources all hold a value above 0
C19_Witness ==
    /\ ret.op = "map_read" /\ ret.err = 0
    /\ priv.map.type = SNDRV_CTL_ELEM_TYPE_NONE
    /\ \E index \in 0..(MaxDest - 1) :
          /\ Cardinality(MapSources(priv.map, index)) > 1
          /\ LeastOf(MapSources(priv.map, index)) > 0
          /\ ret.value[index] = 0

\* what C20 says of one write through the plugin
SyncWriteStep ==
    ret'.op = "elem_write" =>
        LET id == ret'.id
            on == priv.sync.switch_state
        IN  /\ (id.name \in Members /\ on) =>
                  child' = [ child EXCEPT !.value =
                               [ c \in Controls |->
                                   IF c \in Members THEN ret'.value ELSE @[c] ] ]
            /\ (id.name \in Members /\ ~on) =>
                  child' = [ child EXCEPT !.value[id.name] = ret'.value ]
            /\ id.name = SwitchId.name =>
                  /\ child' = child
                  /\ ret'.err \in { 0, 1 }
                  /\ ret'.err = 1 <=> priv'.sync.switch_state # on
            /\ priv.sync.switch_id = NoId => priv'.sync.switch_state

\* C20: the switch of a sync group is on at first; a write to a member
\* while it is on writes the value to every member on the child, while it
\* is off to the addressed control only; a write to the switch control
\* writes nothing to the child and returns 1 exactly when the switch state
\* changed; a group without a switch stays on.
C20_SyncGroupWrite ==
    [][ (ret.op = "none" => priv.sync.switch_state) /\ SyncWriteStep ]_vars

\* a member was written by its numid while the switch was on, before any
\* snd_ctl_elem_info on that member, and the other member keeps another value
C20_Witness ==
    /\ ret.op = "elem_write"
    /\ ret.id.name \in Members /\ ret.id.numid > 0
    /\ ret.switch_state
    /\ priv.sync.control_ids[ret.id.name].numid = 0
    /\ child.value[ret.id.name] = ret.value
    /\ \E m \in Members : child.value[m] # ret.value

---------------------------------------------------------------------------
(* Claims on the rawmidi parameters *)

\* the TSTAMP mode cannot be served by the handle of the last call
NoTstamp ==
    \/ ~ret.rawmidi.tread
    \/ ret.rawmidi.version < SNDRV_PROTOCOL_VERSION(2, 0, 2)
    \/ ret.rawmidi.stream # SND_RAWMIDI_STREAM_INPUT

\* C21: snd_rawmidi_params_set_read_mode() returns -EINVAL for a value
\* that is neither STANDARD nor TSTAMP, -ENOTSUP for TSTAMP on a handle
\* without tread, with a protocol below 2.0.2 or on a stream that is not an
\* input, and leaves params->mode as it was on every error; on success only
\* the framing bits of params->mode change and
\* snd_rawmidi_params_get_read_mode() returns the value that was set.
C21_SetReadMode ==
    ret.op \in { "set_read_mode", "get_read_mode" } =>
        /\ ret.val \notin { SND_RAWMIDI_READ_STANDARD, SND_RAWMIDI_READ_TSTAMP }
              => ret.err = -EINVAL
        /\ (ret.val = SND_RAWMIDI_READ_TSTAMP /\ NoTstamp) => ret.err = -ENOTSUP
        /\ (ret.val = SND_RAWMIDI_READ_TSTAMP /\ ~NoTstamp) => ret.err = 0
        /\ ret.val = SND_RAWMIDI_READ_STANDARD => ret.err = 0
        /\ ret.err < 0 => ret.mode = ret.mode_before
        /\ ret.err = 0 =>
              AndNotMask(ret.mode, SNDRV_RAWMIDI_MODE_FRAMING_MASK)
                  = AndNotMask(ret.mode_before, SNDRV_RAWMIDI_MODE_FRAMING_MASK)
        /\ (ret.op = "get_read_mode" /\ ret.err = 0) => ret.read = ret.val

\* STANDARD was set over parameters that held the TSTAMP framing and a
\* clock, and read back
C21_Witness ==
    /\ ret.op = "get_read_mode"
    /\ ret.err = 0
    /\ ret.val = SND_RAWMIDI_READ_STANDARD
    /\ AndMask(ret.mode_before, SNDRV_RAWMIDI_MODE_FRAMING_MASK)
           = SNDRV_RAWMIDI_MODE_FRAMING_TSTAMP
    /\ ret.mode_before > SNDRV_RAWMIDI_MODE_FRAMING_MASK
    /\ ret.read = SND_RAWMIDI_READ_STANDARD

---------------------------------------------------------------------------
(* Claims on the events read through the remap plugin *)

\* C22: every event queued by event_add() while snd_ctl_remap_read()
\* processes one child event is returned by a later snd_ctl_remap_read()
\* exactly once, in queue order and before the next child event is fetched,
\* in every configuration: while events that were asked for are
\* undelivered the queue does not look empty (head differs from tail) and
\* its head is the oldest of them, and it looks empty once all are
\* delivered.
C22_QueuedEventsDelivered ==
    /\ priv.queued # <<>> =>
          /\ priv.event_queue_head # priv.event_queue_tail
          /\ priv.event_queue[priv.event_queue_head + 1].numid_app = Head(priv.queued)
    /\ priv.queued = <<>> => priv.event_queue_head = priv.event_queue_tail

\* a child event was read that belongs to a map, and the event for the map
\* waits in the queue
C22_Witness ==
    /\ ret.op = "read" /\ ret.from = "child" /\ ret.err > 0
    /\ Len(priv.map) > 0
    /\ priv.queued = << priv.map[1].map_id.numid >>
    /\ priv.event_queue_head # priv.event_queue_tail

\* the entries of the table in use
NumidEntries(numid, numid_items) ==
    SubSeq(numid, 1, numid_items)

\* C23: when snd_ctl_remap_read() passes on a REMOVE event for the child
\* numid n with numid remapping active, the numid table afterwards holds no
\* entry with numid_child = n, numid_items has decreased by the number of
\* removed entries, all other entries are preserved, and
\* numid_items <= numid_alloc holds.
C23_RemoveForgetsNumid ==
    (/\ ret.op = "read" /\ ret.from = "child" /\ ret.err > 0
     /\ ret.mask = SNDRV_CTL_EVENT_MASK_REMOVE) =>
        LET n == ret.forget.numid_child
            before == NumidEntries(ret.forget.numid, ret.forget.numid_items)
            kept == SelectSeq(before, LAMBDA e : e.numid_child # n)
        IN  /\ priv.numid_remap_active
            /\ priv.numid_items <= priv.numid_alloc
            /\ ~priv.overrun
            /\ priv.numid_items = Len(kept)
            /\ NumidEntries(priv.numid, priv.numid_items) = kept

\* a REMOVE event was passed on for a numid whose entry had entries of
\* other controls behind it
C23_Witness ==
    /\ ret.op = "read" /\ ret.from = "child" /\ ret.err > 0
    /\ ret.mask = SNDRV_CTL_EVENT_MASK_REMOVE
    /\ \E i \in 1..ret.forget.numid_items :
          /\ ret.forget.numid[i].numid_child = ret.forget.numid_child
          /\ i < ret.forget.numid_items

---------------------------------------------------------------------------
(* Claims on snd_pcm_mmap_avail() against a running hardware pointer *)

\* the space that exists for the application: the free frames of a
\* playback buffer, the filled frames of a capture buffer, counted from the
\* frames each side moved in total
SpaceNow ==
    IF pcm.stream = SND_PCM_STREAM_PLAYBACK
    THEN pcm.buffer_size - (appl_total - hw_total)
    ELSE hw_total - appl_total

\* C24: with the hardware advancing hw_ptr concurrently, modulo the
\* boundary and without xrun, the value snd_pcm_mmap_playback_avail()
\* computed from its two separate reads of hw_ptr and appl_ptr never exceeds
\* the free space that exists at any later moment before the application
\* next advances appl_ptr; the capture value never exceeds the filled space.
C24_AvailNeverExceedsSpace ==
    ret.op = "avail_done" =>
        /\ ret.avail <= SpaceNow
        /\ SpaceNow <= pcm.buffer_size

\* the hardware moved hw_ptr between the two reads or after them, across
\* the boundary, and the value returned is now less than the space there is
C24_Witness ==
    /\ ret.op = "avail_done"
    /\ ret.hw # hw_ptr
    /\ hw_ptr < ret.hw
    /\ 0 < ret.avail /\ ret.avail < SpaceNow

=============================================================================
